---- MODULE Spec2Model ----
(***************************************************************************)
(* Model of react-konva-interactive-stage: the geometry utilities          *)
(* (transform-utils.ts), the transform hook (useStageTransform.ts), the    *)
(* resize adapter (useStageResize.ts), the drag and wheel handlers and the *)
(* bounds tracker (useStageBounds).                                        *)
(*                                                                         *)
(* Numbers.  A JavaScript number is modelled as a fraction [n, d] in       *)
(* lowest terms with d > 0, extended by the three non-finite values of     *)
(* IEEE arithmetic: [1,0] is Infinity, [-1,0] is -Infinity and [0,0] is    *)
(* NaN.  Arithmetic is exact (no rounding); zero is unsigned.              *)
(***************************************************************************)
EXTENDS Integers, FiniteSets, Sequences, TLC

----------------------------------------------------------------------------
(* JavaScript numbers *)

Abs(i) == IF i < 0 THEN -i ELSE i

Sgn(i) == IF i < 0 THEN -1 ELSE IF i > 0 THEN 1 ELSE 0

RECURSIVE Gcd(_, _)
Gcd(a, b) == IF b = 0 THEN a ELSE Gcd(b, a % b)

\* n/d with the common divisor g taken out and the sign in the numerator.
Reduce(n, d, g) == [n |-> (Sgn(d) * Sgn(n)) * (Abs(n) \div g), d |-> Abs(d) \div g]

\* The number n/d in lowest terms; a zero denominator gives Infinity, -Infinity or NaN.
Num(n, d) ==
  IF d = 0 THEN [n |-> Sgn(n), d |-> 0] ELSE Reduce(n, d, Gcd(Abs(n), Abs(d)))

Int2Num(i) == [n |-> i, d |-> 1]

NaN == [n |-> 0, d |-> 0]

Infinity == [n |-> 1, d |-> 0]

IsNaN(a) == a.d = 0 /\ a.n = 0

IsFinite(a) == a.d # 0

\* a + b
Add(a, b) ==
  IF a.d = 0 /\ b.d = 0
  THEN (IF a.n = b.n THEN a ELSE NaN)
  ELSE Num(a.n * b.d + b.n * a.d, a.d * b.d)

\* -a
Neg(a) == [n |-> -a.n, d |-> a.d]

\* a - b
Sub(a, b) == Add(a, Neg(b))

\* a * b
Mul(a, b) == Num(a.n * b.n, a.d * b.d)

\* a / b  (x/0 is Infinity with the sign of x, 0/0 is NaN)
Div(a, b) ==
  IF b.n = 0 THEN Num(a.n * b.d, 0)
  ELSE Num(a.n * b.d * Sgn(b.n), a.d * Abs(b.n))

\* a < b  (false when either is NaN)
Lt(a, b) ==
  /\ ~IsNaN(a)
  /\ ~IsNaN(b)
  /\ IF a.d = 0 /\ b.d = 0 THEN a.n < b.n ELSE a.n * b.d < b.n * a.d

\* a === b  (false when either is NaN)
StrictEq(a, b) == ~IsNaN(a) /\ ~IsNaN(b) /\ a = b

\* a <= b
Le(a, b) == Lt(a, b) \/ StrictEq(a, b)

\* a > b
Gt(a, b) == Lt(b, a)

\* Math.min(a, b)
MathMin(a, b) == IF IsNaN(a) \/ IsNaN(b) THEN NaN ELSE IF Lt(b, a) THEN b ELSE a

\* Math.max(a, b)
MathMax(a, b) == IF IsNaN(a) \/ IsNaN(b) THEN NaN ELSE IF Lt(a, b) THEN b ELSE a

\* Math.abs(a)
MathAbs(a) == [n |-> Abs(a.n), d |-> a.d]

One == Int2Num(1)

Zero == Int2Num(0)

Two == Int2Num(2)

Pt(x, y) == [x |-> x, y |-> y]

Dim(w, h) == [width |-> w, height |-> h]

Box(x, y, w, h) == [x |-> x, y |-> y, width |-> w, height |-> h]

----------------------------------------------------------------------------
(* Geometry utilities: transform-utils.ts *)

\* Line 19: a scale of 0 is replaced by 1, on both axes.
zeroGuard(scale) ==
  [x |-> IF StrictEq(scale, Zero) THEN One ELSE scale,
   y |-> IF StrictEq(scale, Zero) THEN One ELSE scale]

\* A slip: the zero guard is dropped.
calculateScale_noGuard(bounds, container) ==
  [x |-> MathMin(Div(container.width, bounds.width),
                 Div(container.height, bounds.height)),
   y |-> MathMin(Div(container.width, bounds.width),
                 Div(container.height, bounds.height))]

\* A slip: the larger of the two ratios is taken.
calculateScale_max(bounds, container) ==
  zeroGuard(MathMax(Div(container.width, bounds.width),
                    Div(container.height, bounds.height)))

calculateScale(bounds, container) ==
  zeroGuard(MathMin(Div(container.width, bounds.width),
                    Div(container.height, bounds.height)))

\* A slip: the content offset is not scaled.
calculateInitialPosition_offset(bounds, container, scale) ==
  [x |-> Sub(Div(Sub(container.width, Mul(bounds.width, scale)), Two), bounds.x),
   y |-> Sub(Div(Sub(container.height, Mul(bounds.height, scale)), Two), bounds.y)]

calculateInitialPosition(bounds, container, scale) ==
  [x |-> Sub(Div(Sub(container.width, Mul(bounds.width, scale)), Two),
             Mul(bounds.x, scale)),
   y |-> Sub(Div(Sub(container.height, Mul(bounds.height, scale)), Two),
             Mul(bounds.y, scale))]

\* Lines 54-57: the position for the scale computed, and the pair returned.
resetAt(bounds, container, scale) ==
  [scale |-> scale, position |-> calculateInitialPosition(bounds, container, scale)]

getResetTransform(bounds, container) ==
  resetAt(bounds, container, calculateScale(bounds, container).x)

\* Lines 79-84: the rectangle from the world origin and the visible size.
rectOf(worldX, worldY, visibleWidth, visibleHeight) ==
  [left   |-> worldX,
   top    |-> worldY,
   right  |-> Add(worldX, visibleWidth),
   bottom |-> Add(worldY, visibleHeight)]

calculateVisibleRect(position, scale, container) ==
  rectOf(Div(Neg(position.x), scale), Div(Neg(position.y), scale),
         Div(container.width, scale), Div(container.height, scale))

\* Lines 104-113: the visible rectangle of the fit transform, given the fit scale.
initialRectAt(container, bounds, initialScale) ==
  calculateVisibleRect(calculateInitialPosition(bounds, container, initialScale),
                       initialScale, container)

\* Lines 103-113: the visible rectangle of the fit-to-container transform.
clampInitialRect(container, bounds) ==
  initialRectAt(container, bounds, calculateScale(bounds, container).x)

\* Lines 116-119: the position limits for an initial rectangle.
\* A slip: the fit rectangle is used in world units, not multiplied by the scale.
limitsOf_unscaled(initialRect, scale, container) ==
  [maxPosX |-> Neg(initialRect.left),
   minPosX |-> Add(Neg(initialRect.right), container.width),
   maxPosY |-> Neg(initialRect.top),
   minPosY |-> Add(Neg(initialRect.bottom), container.height)]

\* Lines 115-119: the limits of the position at the scale given.
limitsOf(initialRect, scale, container) ==
  [maxPosX |-> Mul(Neg(initialRect.left), scale),
   minPosX |-> Add(Mul(Neg(initialRect.right), scale), container.width),
   maxPosY |-> Mul(Neg(initialRect.top), scale),
   minPosY |-> Add(Mul(Neg(initialRect.bottom), scale), container.height)]

\* The position limits of clampPosition: lines 103-119.
clampLimits(scale, container, bounds) ==
  limitsOf(clampInitialRect(container, bounds), scale, container)

\* Lines 122-128: the position cut off at the limits.
clampTo(lim, position) ==
  [x |-> MathMax(lim.minPosX, MathMin(lim.maxPosX, position.x)),
   y |-> MathMax(lim.minPosY, MathMin(lim.maxPosY, position.y))]

\* A slip: the lower limit is applied first, so the upper limit wins.
clampTo_swapped(lim, position) ==
  [x |-> MathMin(lim.maxPosX, MathMax(lim.minPosX, position.x)),
   y |-> MathMin(lim.maxPosY, MathMax(lim.minPosY, position.y))]

\* A slip: the limits are taken from the live bounds box, not from the fit rectangle.
clampPosition_liveBounds(position, scale, container, bounds) ==
  clampTo([maxPosX |-> Mul(Neg(bounds.x), scale),
           minPosX |-> Add(Mul(Neg(Add(bounds.x, bounds.width)), scale), container.width),
           maxPosY |-> Mul(Neg(bounds.y), scale),
           minPosY |-> Add(Mul(Neg(Add(bounds.y, bounds.height)), scale),
                           container.height)],
          position)

\* A slip: the lower limit is applied first, so the upper limit wins.
clampPosition_swapped(position, scale, container, bounds) ==
  clampTo_swapped(clampLimits(scale, container, bounds), position)

\* A slip: an overshoot is halved (a rubber band) instead of cut off.
rubberBand(lo, hi, p) ==
  IF Lt(hi, p) THEN Add(hi, Div(Sub(p, hi), Two))
  ELSE IF Lt(p, lo) THEN Sub(lo, Div(Sub(lo, p), Two))
  ELSE p

clampPosition_rubberBand(position, scale, container, bounds) ==
  [x |-> rubberBand(clampLimits(scale, container, bounds).minPosX,
                    clampLimits(scale, container, bounds).maxPosX, position.x),
   y |-> rubberBand(clampLimits(scale, container, bounds).minPosY,
                    clampLimits(scale, container, bounds).maxPosY, position.y)]

clampPosition(position, scale, container, bounds) ==
  clampTo(clampLimits(scale, container, bounds), position)

----------------------------------------------------------------------------
(* Configuration and input sets *)

\* The number of input events of one behaviour.
MaxSteps == 2

\* options.maxZoom as the example application passes it.
maxZoom == 5

\* options.zoomSpeed as the example application passes it.
zoomSpeed == 5

\* options.minZoom.
minZoom == Num(1, 10)

\* options.panSpeed (a perfect square, so that Math.sqrt is exact).
panSpeed == Int2Num(4)

\* Math.sqrt on the perfect squares the model uses.
MathSqrt(a) ==
  IF a.d = 0 \/ a.n < 0 THEN (IF a.n > 0 THEN a ELSE NaN)
  ELSE Num(CHOOSE r \in 0..a.n : r * r = a.n, CHOOSE r \in 1..a.d : r * r = a.d)

\* The value of an argument that was not passed, of a null ref, of a missing pointer.
Undefined == [n |-> 0, d |-> -1]

NoPoint == Pt(Undefined, Undefined)

\* The container before the first measurement: useResizeObserver's initial state.
NoContainer == Dim(Zero, Zero)

\* The bounds before the first measurement: useStageBounds' initial state.
DefaultBounds == Box(Zero, Zero, One, One)

ContainerSet == {Dim(Int2Num(12), Int2Num(6)), Dim(Int2Num(6), Int2Num(6))}

PointerSet == {Pt(Int2Num(1), Int2Num(1)), Pt(Int2Num(6), Int2Num(3))}

\* Where the pointer is during pan gestures (a pan does not read it).
PanPointer == Pt(Int2Num(1), Int2Num(1))

\* Vertical wheel deltas of zoom gestures.
ZoomDeltaSet == {Int2Num(-10), Num(5, 2), Int2Num(10)}

\* Vertical wheel deltas of any wheel event: a horizontal scroll has none.
WheelDeltaSet == ZoomDeltaSet \cup {Zero}

\* Wheel deltas (dx, dy) of pan gestures.
PanDeltaSet == {Pt(Int2Num(1), Zero), Pt(Int2Num(-2), Int2Num(-1))}

\* The drawable nodes the scene graph can hold, with their world-space boxes.
NodeIds == {1, 2}

NodeBox(id) ==
  IF id = 1 THEN Box(Zero, Zero, Int2Num(10), Int2Num(5))
  ELSE IF id = 2 THEN Box(Int2Num(2), Int2Num(1), Int2Num(20), Int2Num(4))
  ELSE Box(Int2Num(-8), Int2Num(-4), Int2Num(4), Int2Num(2))

\* The nodes of the scenes the Bounds Tracker is looked at with: node 3 lies at
\* negative world coordinates.
BoundsNodeIds == {1, 2, 3}

\* The boundsWidth and boundsHeight props: not configured, or a manual size.
ManualSet == {Undefined, Num(1, 2), Int2Num(30)}

PaddingSet == {Num(1, 5)}

\* options.zoomPanTransitionDelay, in clock ticks.
zoomPanTransitionDelay == 2

\* The last clock tick of a behaviour.
MaxNow == 3

----------------------------------------------------------------------------
(* State *)

VARIABLES
  scale,              \* useState(1): the scale of the current render
  position,           \* useState({0,0}): the position of the current render
  isDragging,         \* useState(false)
  bounds,             \* useStageBounds' useState: the bounds of the current render
  container,          \* the container prop of the current render
  qScale,             \* the latest setScale value, committed by the next render
  qPosition,          \* the latest _setPosition value
  qDragging,          \* the latest setIsDragging value
  qBounds,            \* the latest setBounds value
  qContainer,         \* the latest setDimensions value
  previousContainer,  \* useStageResize's ref
  lastMousePos,       \* useDragHandlers' ref (NoPoint for null)
  optClamp,           \* options.clampPosition of the current render
  capClamp,           \* options.clampPosition as clampAndSetPosition captured it
  loading,            \* the loading prop
  nodes,              \* ids of the Shape nodes under the interactive layer
  boundsWidth,        \* manual bounds (Undefined when not configured)
  boundsHeight,
  now,                \* Date.now()
  lastZoomTime,       \* useWheelHandlers' ref
  steps,              \* input events so far
  last,               \* the latest operation, its inputs and the state it saw
  gIn,                \* the arguments of a call of a geometry utility
  gOut,               \* the utility called and what it returned
  watcher,            \* useEvents: the stage's shapes, the refs, the deferred passes
  calls,              \* the calls of onNodesAdded and onNodesModified so far
  dispatcher,         \* useCallbacks: the observed values and the throttles
  emitted,            \* the calls of the external observer callbacks so far
  minimap,            \* Minimap: its props and its own drag state
  stage               \* the Konva stage: its refs, its own transform, the preview

\* The state of the mounted surface.
progVars == <<scale, position, isDragging, bounds, container, qScale, qPosition,
              qDragging, qBounds, qContainer, previousContainer, lastMousePos,
              optClamp, capClamp, loading, nodes, boundsWidth, boundsHeight, now,
              lastZoomTime, steps, last>>

\* The state of a call of a geometry utility on its own.
geomVars == <<gIn, gOut>>

\* The state of the Change Watcher on its own.
watchVars == <<watcher, calls>>

\* The state of the Callback Dispatcher and of the Minimap widget on their own.
widgetVars == <<dispatcher, emitted, minimap, stage>>

vars == <<progVars, geomVars, watchVars, widgetVars>>

----------------------------------------------------------------------------
(* Transform Model: useStageTransform.ts *)

\* What the callbacks of one render have captured.
Env(sc, pos, drag, bnds, cont, cap) ==
  [scale |-> sc, position |-> pos, isDragging |-> drag, bounds |-> bnds,
   container |-> cont, clampPosition |-> cap]

\* The closures of the current render.
CurEnv == Env(scale, position, isDragging, bounds, container, capClamp)

\* The state updates queued for the next render.
CurQ == [scale |-> qScale, position |-> qPosition]

\* A slip: the clamp is applied whatever the option says.
clampAndSetPosition_always(env, newPosition, newScale) ==
  clampPosition(newPosition, newScale, env.container, env.bounds)

\* A slip: the clamp uses the scale of the render, not the scale passed in.
clampAndSetPosition_oldScale(env, newPosition, newScale) ==
  IF ~env.clampPosition THEN newPosition
  ELSE clampPosition(newPosition, env.scale, env.container, env.bounds)

\* The position clampAndSetPosition hands to _setPosition.
clampAndSetPosition(env, newPosition, newScale) ==
  IF ~env.clampPosition THEN newPosition
  ELSE clampPosition(newPosition, newScale, env.container, env.bounds)

\* A slip: the new scale is used for the clamp but never committed.
setPosition_dropScale(env, q, newPosition, newScale) ==
  [scale    |-> q.scale,
   position |-> clampAndSetPosition(env, newPosition,
                  IF newScale # Undefined THEN newScale ELSE env.scale)]

\* setPosition(newPosition, newScale?): the queue of state updates it leaves.
setPosition(env, q, newPosition, newScale) ==
  [scale    |-> IF newScale # Undefined THEN newScale ELSE q.scale,
   position |-> clampAndSetPosition(env, newPosition,
                  IF newScale # Undefined THEN newScale ELSE env.scale)]

----------------------------------------------------------------------------
(* Resize Adapter: useStageResize.ts *)

\* A slip: the centre is taken in the new container.
prevCenterOf_current(env, prevContainer) ==
  Pt(Div(Add(Neg(env.position.x), Div(env.container.width, Two)), env.scale),
     Div(Add(Neg(env.position.y), Div(env.container.height, Two)), env.scale))

\* Lines 35-38: the world point at the centre of the previous container.
prevCenterOf(env, prevContainer) ==
  Pt(Div(Add(Neg(env.position.x), Div(prevContainer.width, Two)), env.scale),
     Div(Add(Neg(env.position.y), Div(prevContainer.height, Two)), env.scale))

\* A slip: the ratio of the fit scales is taken the wrong way round.
resizeScale_inverted(env, prevContainer) ==
  Mul(calculateScale(env.bounds, prevContainer).x,
      Div(env.scale, calculateScale(env.bounds, env.container).x))

\* A slip: the relative zoom is dropped and the new fit scale is taken.
resizeScale_fit(env, prevContainer) == calculateScale(env.bounds, env.container).x

\* Lines 41-46: the scale that keeps the zoom relative to the fit scale.
resizeScale(env, prevContainer) ==
  Mul(calculateScale(env.bounds, env.container).x,
      Div(env.scale, calculateScale(env.bounds, prevContainer).x))

\* A slip: prevCenter is put at the top-left corner of the container.
resizePosition_corner(env, prevCenter, newScale) ==
  Pt(Mul(Neg(prevCenter.x), newScale), Mul(Neg(prevCenter.y), newScale))

\* Lines 49-52: the position that puts prevCenter at the centre of the container.
resizePosition(env, prevCenter, newScale) ==
  Pt(Add(Mul(Neg(prevCenter.x), newScale), Div(env.container.width, Two)),
     Add(Mul(Neg(prevCenter.y), newScale), Div(env.container.height, Two)))

\* The scale and position updateTransform computes: lines 35-52.
resizeTarget(env, prevContainer) ==
  [scale    |-> resizeScale(env, prevContainer),
   position |-> resizePosition(env, prevCenterOf(env, prevContainer),
                               resizeScale(env, prevContainer))]

\* Lines 55-56: setScale(newScale); setPosition(newPosition, newScale).
commitResize(env, q, t) ==
  setPosition(env, [q EXCEPT !.scale = t.scale], t.position, t.scale)

updateTransform(env, q, prevContainer) ==
  commitResize(env, q, resizeTarget(env, prevContainer))

\* The condition of the resize effect: lines 64-67.
containerChanged(cont, prevContainer) ==
  \/ ~StrictEq(cont.width, prevContainer.width)
  \/ ~StrictEq(cont.height, prevContainer.height)

----------------------------------------------------------------------------
(* Zoom Controller: useZoomHandlers (specified in section 4.5) *)

clampZoom(s) == MathMin(MathMax(s, minZoom), Int2Num(maxZoom))

\* factor = 1 + direction * (delta / zoomSpeed)
zoomFactor(direction, delta) ==
  Add(One, Mul(direction, Div(delta, Int2Num(zoomSpeed))))

\* The world point under the pointer.
worldAnchorOf(env, pointer) ==
  Pt(Div(Sub(pointer.x, env.position.x), env.scale),
     Div(Sub(pointer.y, env.position.y), env.scale))

\* The transform that keeps worldAnchor under the pointer at newScale.
anchoredAt(pointer, worldAnchor, newScale) ==
  [scale    |-> newScale,
   position |-> Pt(Sub(pointer.x, Mul(worldAnchor.x, newScale)),
                   Sub(pointer.y, Mul(worldAnchor.y, newScale)))]

\* The candidate transform of handleZoom(pointer, direction, delta).
zoomTarget(env, pointer, direction, delta) ==
  anchoredAt(pointer, worldAnchorOf(env, pointer),
             clampZoom(Mul(env.scale, zoomFactor(direction, delta))))

\* The commit of a candidate transform through the Transform Model.
commitTarget(env, q, t) == setPosition(env, q, t.position, t.scale)

handleZoom(env, q, pointer, direction, delta) ==
  commitTarget(env, q, zoomTarget(env, pointer, direction, delta))

resetZoom(env, q) ==
  commitTarget(env, q, getResetTransform(env.bounds, env.container))

\* The node's world box inflated by paddingPercent on each side.
inflate(box, paddingPercent) ==
  Box(Sub(box.x, Mul(box.width, paddingPercent)),
      Sub(box.y, Mul(box.height, paddingPercent)),
      Add(box.width, Mul(Two, Mul(box.width, paddingPercent))),
      Add(box.height, Mul(Two, Mul(box.height, paddingPercent))))

\* The fit of the padded box, with the scale limited to [minZoom, maxZoom].
fitLimited(padded, cont) ==
  resetAt(padded, cont, clampZoom(calculateScale(padded, cont).x))

elementTarget(env, box, paddingPercent) ==
  fitLimited(inflate(box, paddingPercent), env.container)

zoomToElement(env, q, box, paddingPercent) ==
  commitTarget(env, q, elementTarget(env, box, paddingPercent))

\* The zoom the auto-reset effect reads.
zoom(env) == env.scale

----------------------------------------------------------------------------
(* Bounds Tracker: useStageBounds *)

\* Math.round(a)
MathRound(a) == IF a.d = 0 THEN a ELSE Int2Num((2 * a.n + a.d) \div (2 * a.d))

\* A value the || operator skips: undefined, 0 or NaN.
Falsy(a) == a = Undefined \/ a = Zero \/ IsNaN(a)

\* shape.getClientRect(): the node's world box b under the stage transform.
clientRectOf(b, stageScale, stagePos) ==
  Box(Add(Mul(b.x, stageScale), stagePos.x), Add(Mul(b.y, stageScale), stagePos.y),
      Mul(b.width, stageScale), Mul(b.height, stageScale))

getClientRect(id, stageScale, stagePos) == clientRectOf(NodeBox(id), stageScale, stagePos)

\* Lines 155-163: the client rectangle taken back to world coordinates.
worldBoxOf(box, stageScale, stagePos) ==
  Box(Div(Sub(box.x, stagePos.x), stageScale), Div(Sub(box.y, stagePos.y), stageScale),
      Div(box.width, stageScale), Div(box.height, stageScale))

getWorldBox(id, stageScale, stagePos) ==
  worldBoxOf(getClientRect(id, stageScale, stagePos), stageScale, stagePos)

\* Lines 100-103: one node's box added to the envelope.
extend(acc, worldBox) ==
  [minX |-> MathMin(acc.minX, worldBox.x),
   minY |-> MathMin(acc.minY, worldBox.y),
   maxX |-> MathMax(acc.maxX, Add(worldBox.x, worldBox.width)),
   maxY |-> MathMax(acc.maxY, Add(worldBox.y, worldBox.height))]

\* The node the loop of lines 98-104 visits next.
Pick(ids) == CHOOSE i \in ids : TRUE

\* The min/max envelope of the nodes' world boxes: lines 93-104.  Number.MAX_VALUE
\* is above every coordinate of the model and is written Infinity.
RECURSIVE envelope(_, _, _, _)
envelope(ids, stageScale, stagePos, acc) ==
  IF ids = {} THEN acc
  ELSE envelope(ids \ {Pick(ids)}, stageScale, stagePos,
                extend(acc, getWorldBox(Pick(ids), stageScale, stagePos)))

\* Lines 107-112: manual bounds if provided, otherwise the envelope's.
candidateOf(e, bw, bh) ==
  Box(Zero, Zero,
      IF Falsy(bw) THEN MathRound(Add(e.maxX, e.minX)) ELSE bw,
      IF Falsy(bh) THEN MathRound(Add(e.maxY, e.minY)) ELSE bh)

\* The candidate bounds: lines 93-112.
newBoundsOf(ids, stageScale, stagePos, bw, bh) ==
  candidateOf(envelope(ids, stageScale, stagePos,
                       [minX |-> Infinity, minY |-> Infinity,
                        maxX |-> Neg(Infinity), maxY |-> Neg(Infinity)]),
              bw, bh)

\* The dead-band test: lines 115-121.
significantChange(newBounds, b) ==
  \/ Gt(MathAbs(Sub(newBounds.x, b.x)), One)
  \/ Gt(MathAbs(Sub(newBounds.y, b.y)), One)
  \/ Gt(MathAbs(Sub(newBounds.width, b.width)), One)
  \/ Gt(MathAbs(Sub(newBounds.height, b.height)), One)

\* updateBounds as the callback that captured the bounds b: the bounds it leaves queued.
\* Lines 115-126: the candidate is committed if it passes the dead-band test.
commitBounds(newBounds, b, qb) == IF significantChange(newBounds, b) THEN newBounds ELSE qb

updateBounds(b, qb, ids, stageScale, stagePos, bw, bh) ==
  IF ids = {} THEN qb
  ELSE commitBounds(newBoundsOf(ids, stageScale, stagePos, bw, bh), b, qb)

----------------------------------------------------------------------------
(* The record of the latest operation *)

\* The renders in which the auto-reset effect called resetZoom.
ResetOps == {"autoReset", "resize+reset"}

\* The auto-reset effect has called resetZoom, in the latest operation or before.
ResetSeen == last.resetBefore \/ last.op \in ResetOps

\* The arguments of a call of handleZoom; NoZoomCall when there was none.
ZoomCall(direction, delta) == [direction |-> direction, delta |-> delta]

NoZoomCall == ZoomCall(Undefined, Undefined)

LastAt(before, op, pointer, candidate, s, env, q) ==
  [op |-> op, pointer |-> pointer, candidate |-> candidate, s |-> s,
   env |-> env, q |-> q, prev |-> previousContainer, opt |-> optClamp,
   stored |-> qBounds, resetBefore |-> before, call |-> NoZoomCall]

Last(op, pointer, candidate, s, env, q) ==
  LastAt(ResetSeen, op, pointer, candidate, s, env, q)

----------------------------------------------------------------------------
(* Change Watcher: useEvents.ts *)

\* The ids Konva hands out: a counter, never reused.
MaxShapes == 3

ShapeIds == 1..MaxShapes

\* Lines 96-102: the shapes of the stage that are not tracked.
addedNodes(w) == w.stageShapes \ w.shapesRef

\* Lines 105-114: the tracked shapes that are no longer in the stage.
removedNodes(w) == w.shapesRef \ w.stageShapes

\* Every pending id, live or not.
modifiedNodes_pending(w) == w.modifiedNodesRef

\* Lines 117-123: the pending ids found among the shapes of the stage.
modifiedNodes(w) == w.modifiedNodesRef \cap w.stageShapes

\* handleShapeChanges, lines 84-124: the refs and subscriptions it leaves.
handleShapeChanges(w) ==
  [w EXCEPT !.shapesRef = (@ \cup addedNodes(w)) \ removedNodes(w),
            !.subscribed = (@ \cup addedNodes(w)) \ removedNodes(w),
            !.modifiedNodesRef = {}]

\* handleShapeChanges of an instance of the effect that has been cleaned up: the
\* refs are shared, the subscriptions are made and removed with its own handler.
staleShapeChanges(w) ==
  [w EXCEPT !.shapesRef = (@ \cup addedNodes(w)) \ removedNodes(w),
            !.oldSubscribed = (@ \cup addedNodes(w)) \ removedNodes(w),
            !.modifiedNodesRef = {}]

\* Lines 127-129: onNodesAdded is called for a non-empty batch only.
callAdded(c, batch) ==
  IF batch = {} THEN c
  ELSE [c EXCEPT !.addedCalls = @ + 1,
                 !.timesAdded = [n \in ShapeIds |->
                                   IF n \in batch THEN @[n] + 1 ELSE @[n]],
                 !.addedIn = [n \in ShapeIds |->
                                IF n \in batch THEN c.addedCalls + 1 ELSE @[n]]]

\* Lines 133-135: onNodesModified is called for a non-empty batch only.
callModified(c, batch) ==
  IF batch = {} THEN c ELSE [c EXCEPT !.modifiedCalls = Append(@, batch)]

\* Lines 130-132: onNodesRemoved is called for a non-empty batch only.
callRemoved(c, batch) ==
  IF batch = {} THEN c ELSE [c EXCEPT !.removedCalls = @ + 1]

\* Lines 127-135: the callbacks of one pass over the watcher state w.
callbacks(c, w) ==
  callModified(callRemoved(callAdded(c, addedNodes(w)), removedNodes(w)),
               modifiedNodes(w))

\* k passes of handleShapeChanges one after the other.
RECURSIVE passes(_, _, _)
passes(w, c, k) ==
  IF k = 0 THEN [watcher |-> w, calls |-> c]
  ELSE passes(handleShapeChanges(w), callbacks(c, w), k - 1)

\* Lines 149-153: the cleanup unsubscribes every tracked node.
cleanup(w) == [w EXCEPT !.subscribed = @ \ w.shapesRef]

\* The handler of the instance that was cleaned up is not the next one's: what
\* the cleanup left subscribed stays subscribed to it.
retire(w) == [w EXCEPT !.oldSubscribed = @ \cup w.subscribed, !.subscribed = {}]

\* Lines 139-146: the effect defers one pass, then tracks and subscribes every
\* shape of the stage.
effect(w) ==
  [w EXCEPT !.timeouts = @ + 1,
            !.shapesRef = @ \cup w.stageShapes,
            !.subscribed = @ \cup w.stageShapes,
            !.effectPending = FALSE]

\* Lines 57-63: a property-change signal of a subscribed node, handled by every
\* handler the node carries.
handlePropertyChange(w, n) ==
  [w EXCEPT !.modifiedNodesRef = @ \cup {n},
            !.frames = @ + Cardinality({h \in {"cur", "old"} :
                                          \/ h = "cur" /\ n \in w.subscribed
                                          \/ h = "old" /\ n \in w.oldSubscribed})]

\* Lines 127-135: a pass over the watcher state w calls some callback.
hasBatch(w) == addedNodes(w) \cup removedNodes(w) \cup modifiedNodes(w) # {}

\* A pass scheduled by an instance of the effect that has been cleaned up since
\* runs: it is the old closure's handleShapeChanges, with the old callbacks.
stalePass(c, w) ==
  [c EXCEPT !.staleRan = TRUE, !.staleCalled = @ \/ hasBatch(w)]

\* The watcher of a stage without shapes after its first effect.
WatcherMounted ==
  [stageShapes |-> {}, shapesRef |-> {}, modifiedNodesRef |-> {},
   subscribed |-> {}, oldSubscribed |-> {}, timeouts |-> 1, frames |-> 0, effectPending |-> FALSE,
   idCounter |-> 0]

\* No callback has been called.
NoCalls ==
  [addedCalls |-> 0, removedCalls |-> 0, timesAdded |-> [n \in ShapeIds |-> 0],
   addedIn |-> [n \in ShapeIds |-> 0], enteredWith |-> [n \in ShapeIds |-> 0],
   commits |-> 0, modifiedCalls |-> <<>>, signalled |-> {}, frameRan |-> FALSE,
   oldTimeouts |-> 0, oldFrames |-> 0, staleRan |-> FALSE, staleCalled |-> FALSE,
   steps |-> 0]

\* The watcher is not looked at.
WatcherIdle == watcher = WatcherMounted /\ calls = NoCalls

----------------------------------------------------------------------------
(* Callback Dispatcher: useCallbacks.ts *)

\* The observer channels looked at; bounds and visibleRect are wired the same way.
Channels == {"position", "zoom"}

\* The values an observed quantity takes.
ValueSet == {0, 1}

NoValue == -1

\* options.throttleMs, in clock ticks.
throttleMs == 2

\* The throttle of channel ch made by the gen-th useMemo of lines 33-52, in throttles.
throttleOf(throttles, ch, gen) == {th \in throttles : th.ch = ch /\ th.gen = gen}

\* The external callback of the channels in chs is invoked with vals[ch]; live
\* tells whether the invoking throttle belongs to the mounted, current callbacks.
invoke(em, chs, vals, live) ==
  [em EXCEPT !.delivered = [ch \in Channels |-> IF ch \in chs THEN vals[ch] ELSE @[ch]],
             !.burst = [ch \in Channels |->
                          IF ch \in chs THEN @[ch] \/ em.age2[ch] < throttleMs
                          ELSE @[ch]],
             !.age2 = [ch \in Channels |-> IF ch \in chs THEN em.age1[ch] ELSE @[ch]],
             !.age1 = [ch \in Channels |-> IF ch \in chs THEN 0 ELSE @[ch]],
             !.late = @ \/ (chs # {} /\ ~live)]

\* The channels in chs whose current throttle is inside its window.
waiting(d, chs) == {ch \in chs : throttleOf(d.throttles, ch, d.gen) # {}}

\* throttled(value) on the channels chs, lines 56-71: a throttle inside its window
\* keeps the value for the trailing edge, ...
callThrottles(d, chs) ==
  [d EXCEPT !.throttles =
     {IF th.gen = d.gen /\ th.ch \in chs
      THEN [th EXCEPT !.pending = d.value[th.ch]] ELSE th : th \in @}
     \cup {[ch |-> ch, gen |-> d.gen, left |-> throttleMs, pending |-> NoValue] :
             ch \in chs \ waiting(d, chs)}]

\* ... and one outside its window invokes the callback at once (leading edge).
callEmits(d, em, chs) == invoke(em, chs \ waiting(d, chs), d.value, TRUE)

\* A slip: the cleanup cancels nothing.
cancelThrottles_none(d) == d

\* Lines 75-81: the cleanup cancels every throttle of the callbacks it closed over.
cancelThrottles(d) ==
  [d EXCEPT !.throttles = {th \in @ : th.gen # d.gen}]

\* A slip: the throttle has no trailing edge.
trailingValue_none(th) == NoValue

\* The value a throttle invokes its callback with when its window ends.
trailingValue(th) == th.pending

\* The dispatcher after the effects of its first render: every channel has
\* delivered its value on the leading edge of its throttle.
DispatcherMounted ==
  [mounted |-> TRUE, gen |-> 0, value |-> [ch \in Channels |-> 0],
   throttles |-> {[ch |-> ch, gen |-> 0, left |-> throttleMs, pending |-> NoValue] :
                    ch \in Channels}]

EmittedAtMount ==
  [delivered |-> [ch \in Channels |-> 0], age1 |-> [ch \in Channels |-> 0],
   age2 |-> [ch \in Channels |-> throttleMs], burst |-> [ch \in Channels |-> FALSE],
   late |-> FALSE, steps |-> 0]

----------------------------------------------------------------------------
(* Minimap widget *)

\* Lines 20-21 of the Minimap: the widget with the props container and minimapPct.
MinimapMounted(cont, pct) ==
  [dragging |-> FALSE, qDragging |-> FALSE, position |-> Pt(Zero, Zero),
   qPosition |-> Pt(Zero, Zero), container |-> cont, minimapPct |-> pct, steps |-> 0]

\* The size fractions of the widget.
MinimapPctSet == {Zero, Num(1, 4), One}

\* e.movementX and e.movementY of a mousemove.
MovementSet == {Pt(Int2Num(4), Int2Num(2)), Pt(Int2Num(-3), Int2Num(-1)),
                Pt(Int2Num(20), Int2Num(-20))}

\* The container as far as the widget fills it.
minimapLimit_container(cont, pct) == Pt(cont.width, cont.height)

\* Lines 33-34, 37-38 and 46-55: container.width - minimapWidth and
\* container.height - minimapHeight.
minimapLimit(cont, pct) ==
  Pt(Sub(cont.width, Mul(cont.width, pct)), Sub(cont.height, Mul(cont.height, pct)))

\* Lines 36-39 and 49-56: Math.min(Math.max(v, 0), limit) on both axes.
minimapClamp(p, limit) ==
  Pt(MathMin(MathMax(p.x, Zero), limit.x), MathMin(MathMax(p.y, Zero), limit.y))

\* Lines 31-40: the effect of a change of container or minimapPct, on the
\* state the updater function receives.
minimapResize(m, cont, pct) ==
  [m EXCEPT !.container = cont, !.minimapPct = pct, !.dragging = m.qDragging,
            !.qPosition = minimapClamp(m.qPosition, minimapLimit(cont, pct)),
            !.position = minimapClamp(m.qPosition, minimapLimit(cont, pct))]

\* Lines 43-62: handleDragMove of the render m was drawn with.
minimapDragMove(m, e) ==
  [m EXCEPT !.qPosition =
     minimapClamp(Pt(Add(m.position.x, e.x), Add(m.position.y, e.y)),
                  minimapLimit(m.container, m.minimapPct))]

----------------------------------------------------------------------------
(* The Konva stage as updateBounds and capturePreview see it *)

\* The stage showing the transform (sc, pos): stageRef.current is set (attached),
\* the layer #interactive-layer is mounted (layer), enabledRef.current is enabled;
\* no preview is stored and no retry of updateBounds is waiting.
StageAt(attached, layer, enabled, sc, pos) ==
  [attached |-> attached, layer |-> layer, enabled |-> enabled,
   scale |-> Pt(sc, sc), position |-> pos, preview |-> 0, retries |-> 0,
   outcome |-> "none", retried |-> 0, steps |-> 0]

StageIdle == StageAt(TRUE, TRUE, TRUE, One, Pt(Zero, Zero))

\* No retry is scheduled.
scheduleRetry_none(st) == st

\* Lines 81-86 of useStageBounds: setTimeout(updateBounds, 0) when the stage has
\* no interactive layer.
scheduleRetry(st) ==
  IF st.attached /\ ~st.layer THEN [st EXCEPT !.retries = @ + 1] ELSE st

\* Lines 75-90: where a call of updateBounds with the nodes ids gets to.
outcomeOf(st, ids) ==
  IF ~st.attached THEN "noStage"
  ELSE IF ~st.layer THEN "retry"
  ELSE IF ids = {} THEN "empty" ELSE "scan"

\* An empty layer resets the bounds.
stageUpdateBounds_reset(st, b, qb, ids, bw, bh) ==
  IF st.attached /\ st.layer
  THEN (IF ids = {} THEN DefaultBounds
        ELSE updateBounds(b, qb, ids, st.scale.x, st.position, bw, bh))
  ELSE qb

\* Lines 74-127: updateBounds, on the stage st, reading the stage's own transform
\* (lines 77-78): the bounds it leaves queued.
stageUpdateBounds(st, b, qb, ids, bw, bh) ==
  IF st.attached /\ st.layer
  THEN updateBounds(b, qb, ids, st.scale.x, st.position, bw, bh)
  ELSE qb

\* The transform is left as the rasterization needs it.
restore_none(st, x, y, sc) == st

\* Lines 217-219 of useMinimapPreview: stage.scale({x: scale, y: scale}) and
\* stage.position({x, y}).
restore(st, x, y, sc) == [st EXCEPT !.scale = Pt(sc, sc), !.position = Pt(x, y)]

\* Lines 194-196: stage.scale({x: 1, y: 1}) and stage.position({x: 0, y: 0}).
resetTransformations(st) ==
  [st EXCEPT !.scale = Pt(One, One), !.position = Pt(Zero, Zero)]

\* Lines 208-221: toDataURL and setPreview: one more snapshot is stored.
MaxPreviews == 2

setPreview(st) ==
  [st EXCEPT !.preview = IF @ < MaxPreviews THEN @ + 1 ELSE @]

\* Lines 185-222: capturePreview.
capturePreview(st) ==
  IF ~st.attached \/ ~st.enabled THEN st
  ELSE restore(setPreview(resetTransformations(st)),
               st.position.x, st.position.y, st.scale.x)

\* The dispatcher, the minimap and the stage are not looked at.
WidgetsIdle ==
  /\ dispatcher = DispatcherMounted
  /\ emitted = EmittedAtMount
  /\ minimap = MinimapMounted(NoContainer, Zero)
  /\ stage = StageIdle

----------------------------------------------------------------------------
(* Initial states *)

\* The surface right after mount: nothing measured, nothing drawn.
InitFresh ==
  /\ scale = One /\ qScale = One
  /\ position = Pt(Zero, Zero) /\ qPosition = Pt(Zero, Zero)
  /\ isDragging = FALSE /\ qDragging = FALSE
  /\ bounds = DefaultBounds /\ qBounds = DefaultBounds
  /\ container = NoContainer /\ qContainer = NoContainer
  /\ previousContainer = NoContainer
  /\ lastMousePos = NoPoint
  /\ optClamp \in BOOLEAN /\ capClamp = optClamp
  /\ loading = TRUE
  /\ nodes = {}

\* The surface at rest showing the bounds b fitted into the container c.
SettledAt(c, ids, clamp, b, t) ==
  /\ scale = t.scale /\ qScale = t.scale
  /\ position = t.position /\ qPosition = t.position
  /\ isDragging = FALSE /\ qDragging = FALSE
  /\ bounds = b /\ qBounds = b
  /\ container = c /\ qContainer = c
  /\ previousContainer = c
  /\ lastMousePos = NoPoint
  /\ optClamp = clamp /\ capClamp = clamp
  /\ loading = FALSE
  /\ nodes = ids

\* The bounds measured for the nodes ids from the default bounds.
MeasuredBounds(ids) == newBoundsOf(ids, One, Pt(Zero, Zero), Undefined, Undefined)

\* The surface at rest with content measured and fitted.
InitSettled ==
  \E c \in ContainerSet, ids \in (SUBSET NodeIds) \ {{}}, clamp \in BOOLEAN :
    SettledAt(c, ids, clamp, MeasuredBounds(ids),
              getResetTransform(MeasuredBounds(ids), c))

\* No geometry utility is being called on its own.
NoZoom == [pointer |-> NoPoint, direction |-> Undefined, delta |-> Undefined]

NoCall ==
  [position |-> NoPoint, scale |-> Undefined, scale2 |-> Undefined,
   container |-> NoContainer, bounds |-> DefaultBounds, zoom |-> NoZoom]

NoLimits ==
  [maxPosX |-> Undefined, minPosX |-> Undefined, maxPosY |-> Undefined,
   minPosY |-> Undefined]

NoResult ==
  [fn |-> "none", scale |-> Pt(Undefined, Undefined),
   transform |-> [scale |-> Undefined, position |-> NoPoint],
   rect |-> [left |-> Undefined, top |-> Undefined, right |-> Undefined,
             bottom |-> Undefined],
   once |-> NoPoint, twice |-> NoPoint, limits |-> NoLimits, limits2 |-> NoLimits]

Init ==
  /\ InitFresh \/ InitSettled
  /\ WatcherIdle
  /\ WidgetsIdle
  /\ boundsWidth = Undefined
  /\ boundsHeight = Undefined
  /\ now = 0
  /\ lastZoomTime = 0
  /\ steps = 0
  /\ last = LastAt(FALSE, "mount", NoPoint, NoPoint, Undefined, CurEnv, CurQ)
  /\ gIn = NoCall
  /\ gOut = NoResult

----------------------------------------------------------------------------
(* Rendering *)

\* The name of a render by the effects that ran in it.
renderOp(resized, reset) ==
  IF resized /\ reset THEN "resize+reset"
  ELSE IF resized THEN "resize"
  ELSE IF reset THEN "autoReset" ELSE "render"

\* The transform the last effect of a render handed to setPosition.
renderTarget(env, resized, reset) ==
  IF reset THEN getResetTransform(env.bounds, env.container)
  ELSE IF resized THEN resizeTarget(env, previousContainer)
  ELSE [scale |-> Undefined, position |-> NoPoint]

\* The resize effect of useStageResize: lines 63-70.
resizeEffect(env, q, resized) ==
  IF resized THEN updateTransform(env, q, previousContainer) ELSE q

\* The auto-reset effect of useStageTransform: lines 119-122.
autoResetDue(env, boundsChanged) ==
  boundsChanged /\ zoom(env) = One /\ env.bounds.width # One

autoResetEffect(env, q, reset) == IF reset THEN resetZoom(env, q) ELSE q

\* The bounds effect of useStageBounds: lines 129-131 of its file.
boundsEffect(env, run) ==
  IF run
  THEN updateBounds(env.bounds, env.bounds, nodes, env.scale, env.position,
                    boundsWidth, boundsHeight)
  ELSE env.bounds

\* The effects of a render whose callbacks captured env.
RunEffects(env, newClamp, newLoading, boundsChanged, resized, reset, t, q) ==
  /\ qBounds' = boundsEffect(env, newLoading # loading \/ boundsChanged)
  /\ qScale' = q.scale
  /\ qPosition' = q.position
  /\ previousContainer' = IF resized THEN env.container ELSE previousContainer
  /\ last' = [op |-> renderOp(resized, reset), pointer |-> NoPoint,
              candidate |-> t.position, s |-> t.scale, env |-> env, q |-> CurQ,
              prev |-> previousContainer, opt |-> newClamp, stored |-> qBounds,
              resetBefore |-> ResetSeen, call |-> NoZoomCall]
  /\ UNCHANGED <<geomVars, watchVars, widgetVars>>

\* The render of the queued state with callbacks capturing env.
RenderWith(env, newClamp, newLoading, boundsChanged, resized) ==
  /\ scale' = env.scale
  /\ position' = env.position
  /\ isDragging' = env.isDragging
  /\ bounds' = env.bounds
  /\ container' = env.container
  /\ capClamp' = env.clampPosition
  /\ optClamp' = newClamp
  /\ loading' = newLoading
  /\ RunEffects(env, newClamp, newLoading, boundsChanged, resized,
                autoResetDue(env, boundsChanged),
                renderTarget(env, resized, autoResetDue(env, boundsChanged)),
                autoResetEffect(env, resizeEffect(env, CurQ, resized),
                                autoResetDue(env, boundsChanged)))
  /\ UNCHANGED <<qDragging, qContainer, lastMousePos, nodes, boundsWidth,
                 boundsHeight, now, lastZoomTime>>

\* The clampPosition option clampAndSetPosition holds after a render: the callback
\* is made anew only when bounds or container changed (its dependency list).
capturedClamp(newClamp) ==
  IF qBounds # bounds \/ qContainer # container THEN newClamp ELSE capClamp

\* One render with the props (clamp option, loading) given: the queued state is
\* committed, the callbacks capture it, and the effects run in the order of their
\* hooks: the bounds effect, the resize effect, the auto-reset effect.
Render(newClamp, newLoading) ==
  RenderWith(Env(qScale, qPosition, qDragging, qBounds, qContainer,
                 capturedClamp(newClamp)),
             newClamp, newLoading, qBounds # bounds,
             containerChanged(qContainer, previousContainer))

Dirty ==
  \/ qScale # scale
  \/ qPosition # position
  \/ qDragging # isDragging
  \/ qBounds # bounds
  \/ qContainer # container

\* React renders the queued state updates.
Rerender ==
  /\ Dirty
  /\ Render(optClamp, loading)
  /\ UNCHANGED steps

\* The host passes a new options.clampPosition.
ToggleClamp ==
  /\ steps < MaxSteps
  /\ steps' = steps + 1
  /\ Render(~optClamp, loading)

\* The host reports the content loaded.
LoadingDone ==
  /\ steps < MaxSteps
  /\ loading
  /\ steps' = steps + 1
  /\ Render(optClamp, FALSE)

\* An input event: it is counted and recorded.
EventCall(op, pointer, t, call) ==
  /\ steps < MaxSteps
  /\ steps' = steps + 1
  /\ last' = [Last(op, pointer, t.position, t.scale, CurEnv, CurQ)
                EXCEPT !.call = call]
  /\ UNCHANGED <<geomVars, watchVars, widgetVars>>

Event(op, pointer, t) == EventCall(op, pointer, t, NoZoomCall)

NoTarget == [scale |-> Undefined, position |-> NoPoint]

\* The queue q of state updates replaces the current one.
Queue(q) == qScale' = q.scale /\ qPosition' = q.position

\* useResizeObserver: the observer reports the element's size.
ContainerResize(c) ==
  /\ c # qContainer
  /\ Event("observe", NoPoint, NoTarget)
  /\ qContainer' = c
  /\ UNCHANGED <<scale, position, isDragging, bounds, container, qScale, qPosition,
                 qDragging, qBounds, previousContainer, lastMousePos, optClamp,
                 capClamp, loading, nodes, boundsWidth, boundsHeight, now,
                 lastZoomTime>>

----------------------------------------------------------------------------
(* Drag Controller: useDragHandlers.ts *)

handleDragStart(pointerPos) ==
  /\ Event("dragStart", pointerPos, NoTarget)
  /\ IF pointerPos = NoPoint
     THEN UNCHANGED <<qDragging, lastMousePos>>
     ELSE qDragging' = TRUE /\ lastMousePos' = pointerPos
  /\ UNCHANGED <<scale, position, isDragging, bounds, container, qScale, qPosition,
                 qBounds, qContainer, previousContainer, optClamp, capClamp,
                 loading, nodes, boundsWidth, boundsHeight, now, lastZoomTime>>

\* A slip: the drag ends but the pointer sample is kept.
handleDragEnd_keepSample ==
  /\ Event("dragEnd", NoPoint, NoTarget)
  /\ qDragging' = FALSE
  /\ UNCHANGED <<scale, position, isDragging, bounds, container, qScale, qPosition,
                 qBounds, qContainer, previousContainer, lastMousePos, optClamp,
                 capClamp, loading, nodes, boundsWidth, boundsHeight, now,
                 lastZoomTime>>

\* Lines 45-48.
handleDragEnd ==
  /\ Event("dragEnd", NoPoint, NoTarget)
  /\ qDragging' = FALSE
  /\ lastMousePos' = NoPoint
  /\ UNCHANGED <<scale, position, isDragging, bounds, container, qScale, qPosition,
                 qBounds, qContainer, previousContainer, optClamp, capClamp,
                 loading, nodes, boundsWidth, boundsHeight, now, lastZoomTime>>

\* The position handleDragMove hands to setPosition: lines 62-68.
dragTarget(env, lastPos, pointerPos) ==
  [scale    |-> env.scale,
   position |-> Pt(Add(env.position.x, Sub(pointerPos.x, lastPos.x)),
                   Add(env.position.y, Sub(pointerPos.y, lastPos.y)))]

\* Lines 62-71: the move of a drag in progress.
dragMove(env, q, lastPos, pointerPos) ==
  commitTarget(env, q, dragTarget(env, lastPos, pointerPos))

handleDragMove(pointerPos) ==
  /\ IF ~isDragging \/ lastMousePos = NoPoint \/ pointerPos = NoPoint
     THEN /\ Event("dragMoveIgnored", pointerPos, NoTarget)
          /\ UNCHANGED <<qScale, qPosition, lastMousePos>>
     ELSE /\ Event("dragMove", pointerPos, dragTarget(CurEnv, lastMousePos, pointerPos))
          /\ lastMousePos' = pointerPos
          /\ Queue(dragMove(CurEnv, CurQ, lastMousePos, pointerPos))
  /\ UNCHANGED <<scale, position, isDragging, bounds, container, qDragging,
                 qBounds, qContainer, previousContainer, optClamp, capClamp,
                 loading, nodes, boundsWidth, boundsHeight, now, lastZoomTime>>

----------------------------------------------------------------------------
(* Wheel Router: useWheelHandlers *)

\* The position a pan hands to setPosition: lines 209-212 of transform-utils.ts.
panTarget(env, dx, dy) ==
  [scale    |-> Undefined,
   position |-> Pt(Sub(env.position.x, Mul(dx, MathSqrt(panSpeed))),
                   Sub(env.position.y, Mul(dy, MathSqrt(panSpeed))))]

\* Lines 209-212: the pan.
wheelPan(env, q, dx, dy) == commitTarget(env, q, panTarget(env, dx, dy))

\* Math.sign of a finite number.
MathSign(a) == IF Gt(a, Zero) THEN One ELSE IF Gt(Zero, a) THEN Neg(One) ELSE Zero

\* A slip: the direction is the sign of the vertical delta.
wheelDirection_sign(dy) == MathSign(dy)

\* Line 194: the direction of a zoom gesture.
wheelDirection(dy) == IF Gt(dy, Zero) THEN One ELSE Neg(One)

\* A slip: the handler does not look at loading.
wheelIgnored_loaded(pointer) == pointer = NoPoint

\* Lines 184-190: the early returns of the handler (loading, no stage, no pointer).
wheelIgnored(pointer) == loading \/ pointer = NoPoint

\* A wheel event with ctrl or meta held.
WheelZoom(pointer, dy) ==
  /\ IF wheelIgnored(pointer)
     THEN /\ Event("wheelIgnored", pointer, NoTarget)
          /\ UNCHANGED <<qScale, qPosition, lastZoomTime>>
     ELSE /\ EventCall("handleZoom", pointer,
                       zoomTarget(CurEnv, pointer, wheelDirection(dy), MathAbs(dy)),
                       ZoomCall(wheelDirection(dy), MathAbs(dy)))
          /\ Queue(handleZoom(CurEnv, CurQ, pointer, wheelDirection(dy), MathAbs(dy)))
          /\ lastZoomTime' = now
  /\ UNCHANGED <<scale, position, isDragging, bounds, container, qDragging,
                 qBounds, qContainer, previousContainer, lastMousePos, optClamp,
                 capClamp, loading, nodes, boundsWidth, boundsHeight, now>>

\* A slip: the cooldown ends one tick early.
wheelDiscarded_early(isIntentional) ==
  ~isIntentional /\ now - lastZoomTime < zoomPanTransitionDelay

\* Line 204: the event is discarded in the cooldown after a zoom.
wheelDiscarded(isIntentional) ==
  ~isIntentional /\ now - lastZoomTime <= zoomPanTransitionDelay

\* A wheel event without ctrl or meta; isIntentional is the classifier's answer.
WheelPan(pointer, d, isIntentional) ==
  /\ IF wheelIgnored(pointer)
     THEN /\ Event("wheelIgnored", pointer, NoTarget)
          /\ UNCHANGED <<qScale, qPosition>>
     ELSE IF wheelDiscarded(isIntentional)
     THEN /\ Event("wheelDiscarded", pointer, NoTarget)
          /\ UNCHANGED <<qScale, qPosition>>
     ELSE /\ Event("wheelPan", pointer, panTarget(CurEnv, d.x, d.y))
          /\ Queue(wheelPan(CurEnv, CurQ, d.x, d.y))
  /\ UNCHANGED <<scale, position, isDragging, bounds, container, qDragging,
                 qBounds, qContainer, previousContainer, lastMousePos, optClamp,
                 capClamp, loading, nodes, boundsWidth, boundsHeight, now,
                 lastZoomTime>>

\* Time passes.
Tick ==
  /\ now < MaxNow
  /\ now' = now + 1
  /\ UNCHANGED <<scale, position, isDragging, bounds, container, qScale, qPosition,
                 qDragging, qBounds, qContainer, previousContainer, lastMousePos,
                 optClamp, capClamp, loading, nodes, boundsWidth, boundsHeight,
                 lastZoomTime, steps, last, gIn, gOut, watcher, calls, dispatcher,
                 emitted, minimap, stage>>

\* Lines 168-179: the Meta or Control key is released.
KeyUp ==
  /\ Event("keyUp", NoPoint, NoTarget)
  /\ lastZoomTime' = now
  /\ UNCHANGED <<scale, position, isDragging, bounds, container, qScale, qPosition,
                 qDragging, qBounds, qContainer, previousContainer, lastMousePos,
                 optClamp, capClamp, loading, nodes, boundsWidth, boundsHeight, now>>

----------------------------------------------------------------------------
(* Imperative zoom operations *)

ResetZoom ==
  /\ Event("resetZoom", NoPoint, getResetTransform(bounds, container))
  /\ Queue(resetZoom(CurEnv, CurQ))
  /\ UNCHANGED <<scale, position, isDragging, bounds, container, qDragging,
                 qBounds, qContainer, previousContainer, lastMousePos, optClamp,
                 capClamp, loading, nodes, boundsWidth, boundsHeight, now,
                 lastZoomTime>>

ZoomToElement(id, paddingPercent) ==
  /\ id \in nodes
  /\ Event("zoomToElement", NoPoint, elementTarget(CurEnv, NodeBox(id), paddingPercent))
  /\ Queue(zoomToElement(CurEnv, CurQ, NodeBox(id), paddingPercent))
  /\ UNCHANGED <<scale, position, isDragging, bounds, container, qDragging,
                 qBounds, qContainer, previousContainer, lastMousePos, optClamp,
                 capClamp, loading, nodes, boundsWidth, boundsHeight, now,
                 lastZoomTime>>

----------------------------------------------------------------------------
(* Scene graph changes and the recomputation of the bounds *)

\* The host draws or removes nodes.
SetNodes(ids) ==
  /\ ids # nodes
  /\ Event("nodes", NoPoint, NoTarget)
  /\ nodes' = ids
  /\ UNCHANGED <<scale, position, isDragging, bounds, container, qScale, qPosition,
                 qDragging, qBounds, qContainer, previousContainer, lastMousePos,
                 optClamp, capClamp, loading, boundsWidth, boundsHeight, now,
                 lastZoomTime>>

\* Lines 89-90 and 114-122: whether a call of updateBounds reaches setBounds.
callsSetBounds(b, ids, stageScale, stagePos, bw, bh) ==
  /\ ids # {}
  /\ significantChange(newBoundsOf(ids, stageScale, stagePos, bw, bh), b)

\* updateBounds called by a node-change callback of the current render, which
\* captured the bounds of that render; the latest setBounds value may be newer.
UpdateBounds ==
  /\ Event(IF callsSetBounds(bounds, nodes, scale, position, boundsWidth,
                             boundsHeight)
           THEN "setBounds" ELSE "updateBounds", NoPoint, NoTarget)
  /\ qBounds' = updateBounds(bounds, qBounds, nodes, scale, position,
                             boundsWidth, boundsHeight)
  /\ UNCHANGED <<scale, position, isDragging, bounds, container, qScale, qPosition,
                 qDragging, qContainer, previousContainer, lastMousePos, optClamp,
                 capClamp, loading, nodes, boundsWidth, boundsHeight, now,
                 lastZoomTime>>

----------------------------------------------------------------------------
(* The program *)

Next ==
  \/ Rerender
  \/ ToggleClamp
  \/ LoadingDone
  \/ \E c \in ContainerSet : ContainerResize(c)
  \/ \E p \in PointerSet \cup {NoPoint} : handleDragStart(p)
  \/ \E p \in PointerSet \cup {NoPoint} : handleDragMove(p)
  \/ handleDragEnd
  \/ \E p \in PointerSet \cup {NoPoint}, dy \in ZoomDeltaSet : WheelZoom(p, dy)
  \/ \E p \in {PanPointer, NoPoint}, d \in PanDeltaSet, i \in BOOLEAN :
       WheelPan(p, d, i)
  \/ ResetZoom
  \/ \E id \in NodeIds, pp \in PaddingSet : ZoomToElement(id, pp)
  \/ \E ids \in SUBSET NodeIds : SetNodes(ids)
  \/ UpdateBounds

Spec == Init /\ [][Next]_vars

----------------------------------------------------------------------------
(* The geometry utilities called on their own *)

GeomBoundsSet ==
  {Box(Zero, Zero, Int2Num(1000), Int2Num(500)),
   Box(Zero, Zero, Int2Num(10), Int2Num(5)),
   Box(Int2Num(2), Int2Num(1), Int2Num(24), Int2Num(6)),
   Box(Int2Num(-4), Int2Num(-2), Int2Num(3), Int2Num(8)),
   Box(Zero, Zero, Zero, Int2Num(500)),
   Box(Zero, Zero, Int2Num(10), Zero),
   Box(Int2Num(2), Int2Num(1), Zero, Zero),
   DefaultBounds}

GeomContainerSet ==
  {Dim(Int2Num(800), Int2Num(400)), Dim(Int2Num(8), Int2Num(4)),
   Dim(Int2Num(4), Int2Num(4)), Dim(Zero, Int2Num(4)), NoContainer}

GeomScaleSet == {Num(1, 10), Num(2, 5), One, Int2Num(3)}

GeomPositionSet ==
  {Pt(Zero, Zero), Pt(Int2Num(-20), Int2Num(-7)), Pt(Int2Num(5), Int2Num(3)),
   Pt(Int2Num(300), Int2Num(-900))}

\* The positions handleZoom is called at.
ZoomPositionSet == {Pt(Zero, Zero), Pt(Int2Num(5), Int2Num(3))}

\* The arguments handleZoom is called with.
ZoomCallSet ==
  [pointer : {Pt(Int2Num(100), Int2Num(100)), Pt(Int2Num(1), Int2Num(1))},
   direction : {One, Neg(One)},
   delta : {Int2Num(10), Num(5, 2)}]

\* The scales a call is tried with: the set's, the fit scale and twice the fit scale.
ScalesFor(b, c) ==
  GeomScaleSet \cup {calculateScale(b, c).x, Mul(Two, calculateScale(b, c).x)}

InitGeom ==
  /\ InitFresh
  /\ WatcherIdle
  /\ WidgetsIdle
  /\ optClamp = TRUE
  /\ boundsWidth = Undefined
  /\ boundsHeight = Undefined
  /\ now = 0
  /\ lastZoomTime = 0
  /\ steps = 0
  /\ last = LastAt(FALSE, "mount", NoPoint, NoPoint, Undefined, CurEnv, CurQ)
  /\ \/ \E b \in GeomBoundsSet, c \in GeomContainerSet, p \in GeomPositionSet :
          \E s \in ScalesFor(b, c), s2 \in ScalesFor(b, c) :
            gIn = [position |-> p, scale |-> s, scale2 |-> s2, container |-> c,
                   bounds |-> b, zoom |-> NoZoom]
     \/ \E s \in GeomScaleSet, p \in ZoomPositionSet, z \in ZoomCallSet :
          gIn = [position |-> p, scale |-> s, scale2 |-> s,
                 container |-> Dim(Int2Num(800), Int2Num(400)),
                 bounds |-> Box(Zero, Zero, Int2Num(1000), Int2Num(500)),
                 zoom |-> z]
  /\ gOut = NoResult

CallCalculateScale ==
  /\ gOut.fn = "none"
  /\ gOut' = [gOut EXCEPT !.fn = "calculateScale",
                          !.scale = calculateScale(gIn.bounds, gIn.container)]
  /\ UNCHANGED <<progVars, gIn, watchVars, widgetVars>>

CallGetResetTransform ==
  /\ gOut.fn = "none"
  /\ gOut' = [gOut EXCEPT !.fn = "getResetTransform",
                          !.transform = getResetTransform(gIn.bounds, gIn.container),
                          !.rect = calculateVisibleRect(
                                     getResetTransform(gIn.bounds, gIn.container).position,
                                     getResetTransform(gIn.bounds, gIn.container).scale,
                                     gIn.container)]
  /\ UNCHANGED <<progVars, gIn, watchVars, widgetVars>>

\* clampPosition, and clampPosition again on what it returned.
CallClampPosition ==
  /\ gOut.fn = "none"
  /\ gOut' = [gOut EXCEPT !.fn = "clampPosition",
                          !.once = clampPosition(gIn.position, gIn.scale,
                                                 gIn.container, gIn.bounds),
                          !.twice = clampPosition(
                                      clampPosition(gIn.position, gIn.scale,
                                                    gIn.container, gIn.bounds),
                                      gIn.scale, gIn.container, gIn.bounds)]
  /\ UNCHANGED <<progVars, gIn, watchVars, widgetVars>>

\* The limits clampPosition computes at the two scales of the call.
CallClampLimits ==
  /\ gOut.fn = "none"
  /\ gOut' = [gOut EXCEPT !.fn = "clampLimits",
                          !.limits = clampLimits(gIn.scale, gIn.container, gIn.bounds),
                          !.limits2 = clampLimits(gIn.scale2, gIn.container, gIn.bounds)]
  /\ UNCHANGED <<progVars, gIn, watchVars, widgetVars>>

\* The render a call of handleZoom runs in: the clamp is off.
ZoomEnv ==
  Env(gIn.scale, gIn.position, FALSE, gIn.bounds, gIn.container, FALSE)

\* handleZoom(pointer, direction, delta) at the scale and position of the call.
CallHandleZoom ==
  /\ gOut.fn = "none"
  /\ gIn.zoom # NoZoom
  /\ gOut' = [gOut EXCEPT !.fn = "handleZoom",
                          !.transform = handleZoom(ZoomEnv,
                                          [scale |-> gIn.scale, position |-> gIn.position],
                                          gIn.zoom.pointer, gIn.zoom.direction,
                                          gIn.zoom.delta)]
  /\ UNCHANGED <<progVars, gIn, watchVars, widgetVars>>

NextGeom ==
  \/ CallHandleZoom
  \/ CallCalculateScale
  \/ CallGetResetTransform
  \/ CallClampPosition
  \/ CallClampLimits

SpecGeom == InitGeom /\ [][NextGeom]_vars

----------------------------------------------------------------------------
(* The Bounds Tracker with content anywhere in world space *)

\* The surface after its first render with the nodes ids drawn and not yet
\* measured: the interactive layer was not found and updateBounds is to be retried
\* (lines 82-86), or the nodes were drawn after the bounds effect ran.
InitBounds ==
  /\ scale = One /\ qScale = One
  /\ position = Pt(Zero, Zero) /\ qPosition = Pt(Zero, Zero)
  /\ isDragging = FALSE /\ qDragging = FALSE
  /\ bounds = DefaultBounds /\ qBounds = DefaultBounds
  /\ container = NoContainer /\ qContainer = NoContainer
  /\ previousContainer = NoContainer
  /\ lastMousePos = NoPoint
  /\ optClamp \in BOOLEAN /\ capClamp = optClamp
  /\ loading = TRUE
  /\ WatcherIdle
  /\ WidgetsIdle
  /\ \E ids \in SUBSET BoundsNodeIds, bw \in ManualSet, bh \in ManualSet :
       /\ nodes = ids
       /\ boundsWidth = bw
       /\ boundsHeight = bh
  /\ now = 0
  /\ lastZoomTime = 0
  /\ steps = 0
  /\ last = LastAt(FALSE, "mount", NoPoint, NoPoint, Undefined, CurEnv, CurQ)
  /\ gIn = NoCall
  /\ gOut = NoResult

NextBounds ==
  \/ Rerender
  \/ LoadingDone
  \/ \E ids \in SUBSET BoundsNodeIds : SetNodes(ids)
  \/ UpdateBounds

SpecBounds == InitBounds /\ [][NextBounds]_vars

----------------------------------------------------------------------------
(* A drag in progress *)

\* The pointer sample onDragStart recorded.
DragSample == Pt(Int2Num(1), Int2Num(1))

\* The pointer positions of the move events.
DragPointerSet == PointerSet \cup {Pt(Int2Num(3), Int2Num(5))}

\* The surface at rest with content fitted, after onDragStart at DragSample and the
\* render that followed.
InitDrag ==
  /\ \E c \in ContainerSet, ids \in (SUBSET NodeIds) \ {{}}, clamp \in BOOLEAN :
       /\ scale = getResetTransform(MeasuredBounds(ids), c).scale
       /\ position = getResetTransform(MeasuredBounds(ids), c).position
       /\ bounds = MeasuredBounds(ids)
       /\ container = c
       /\ nodes = ids
       /\ optClamp = clamp
  /\ qScale = scale
  /\ qPosition = position
  /\ qBounds = bounds
  /\ qContainer = container
  /\ previousContainer = container
  /\ capClamp = optClamp
  /\ isDragging = TRUE
  /\ qDragging = TRUE
  /\ lastMousePos = DragSample
  /\ loading = FALSE
  /\ boundsWidth = Undefined
  /\ boundsHeight = Undefined
  /\ now = 0
  /\ lastZoomTime = 0
  /\ steps = 0
  /\ last = LastAt(FALSE, "dragStart", DragSample, NoPoint, Undefined, CurEnv, CurQ)
  /\ gIn = NoCall
  /\ gOut = NoResult
  /\ WatcherIdle
  /\ WidgetsIdle

NextDrag ==
  \/ Rerender
  \/ \E p \in DragPointerSet \cup {NoPoint} : handleDragMove(p)
  \/ handleDragEnd

SpecDrag == InitDrag /\ [][NextDrag]_vars

----------------------------------------------------------------------------
(* The Resize Adapter on a surface at any zoom, clamping disabled *)

\* The surface at rest at any scale and position; gIn keeps the transform and the
\* container the behaviour started with.
InitResize ==
  /\ \E c \in ContainerSet, ids \in (SUBSET NodeIds) \ {{}},
        s \in GeomScaleSet, p \in GeomPositionSet :
       /\ SettledAt(c, ids, FALSE, MeasuredBounds(ids), [scale |-> s, position |-> p])
       /\ gIn = [NoCall EXCEPT !.scale = s, !.position = p, !.container = c]
  /\ gOut = NoResult
  /\ WatcherIdle
  /\ WidgetsIdle
  /\ boundsWidth = Undefined
  /\ boundsHeight = Undefined
  /\ now = 0
  /\ lastZoomTime = 0
  /\ steps = 0
  /\ last = LastAt(FALSE, "mount", NoPoint, NoPoint, Undefined, CurEnv, CurQ)

NextResize ==
  \/ Rerender
  \/ \E c \in ContainerSet : ContainerResize(c)

SpecResize == InitResize /\ [][NextResize]_vars

----------------------------------------------------------------------------
(* A drag in progress with the wheel in use *)

NextPan ==
  \/ Rerender
  \/ \E p \in DragPointerSet \cup {NoPoint} : handleDragMove(p)
  \/ \E p \in PointerSet \cup {NoPoint}, dy \in ZoomDeltaSet : WheelZoom(p, dy)
  \/ \E p \in {PanPointer, NoPoint}, d \in PanDeltaSet, i \in BOOLEAN :
       WheelPan(p, d, i)

SpecPan == InitDrag /\ [][NextPan]_vars

----------------------------------------------------------------------------
(* The Wheel Router with the clock running *)

NextWheel ==
  \/ Rerender
  \/ Tick
  \/ KeyUp
  \/ \E p \in PointerSet \cup {NoPoint}, dy \in WheelDeltaSet : WheelZoom(p, dy)
  \/ \E p \in PointerSet \cup {NoPoint}, d \in PanDeltaSet, i \in BOOLEAN :
       WheelPan(p, d, i)

SpecWheel == Init /\ [][NextWheel]_vars

----------------------------------------------------------------------------
(* The Change Watcher on its own *)

MaxWatchSteps == 6

InitWatch ==
  /\ InitFresh
  /\ WidgetsIdle
  /\ optClamp = TRUE
  /\ boundsWidth = Undefined
  /\ boundsHeight = Undefined
  /\ now = 0
  /\ lastZoomTime = 0
  /\ steps = 0
  /\ last = LastAt(FALSE, "mount", NoPoint, NoPoint, Undefined, CurEnv, CurQ)
  /\ gIn = NoCall
  /\ gOut = NoResult
  /\ watcher = WatcherMounted
  /\ calls = NoCalls

\* One step of the watcher or of its surroundings.
WatchStep(w, c) ==
  /\ calls.steps < MaxWatchSteps
  /\ watcher' = w
  /\ calls' = [c EXCEPT !.steps = @ + 1]
  /\ UNCHANGED <<progVars, geomVars, widgetVars>>

\* The shapes with the next k ids of Konva's counter.
newShapes(w, k) == (w.idCounter + 1)..(w.idCounter + k)

\* A render is committed: the shapes in keep stay, k new shapes enter the stage,
\* and the effect of useEvents is due (its callbacks are new in every render).
CommitChildren(keep, k) ==
  /\ ~watcher.effectPending
  /\ ~calls.frameRan
  /\ WatchStep([watcher EXCEPT !.stageShapes = keep \cup newShapes(watcher, k),
                               !.idCounter = @ + k,
                               !.effectPending = TRUE],
               [calls EXCEPT !.commits = @ + 1,
                             !.enteredWith =
                               [n \in ShapeIds |->
                                  IF n \in newShapes(watcher, k)
                                  THEN calls.commits + 1 ELSE @[n]]])

\* The effect of useEvents runs again: cleanup of the previous one, lines 149-153,
\* then lines 139-146.
RunEffect ==
  /\ watcher.effectPending
  /\ ~calls.frameRan
  /\ WatchStep(effect(retire(cleanup(watcher))),
               [calls EXCEPT !.oldTimeouts = watcher.timeouts,
                             !.oldFrames = watcher.frames])

\* A pass of handleShapeChanges deferred by setTimeout(handleShapeChanges, 0).
TimeoutPass ==
  /\ watcher.timeouts > 0
  /\ ~calls.frameRan
  /\ WatchStep(IF calls.oldTimeouts > 0
               THEN staleShapeChanges([watcher EXCEPT !.timeouts = @ - 1])
               ELSE passes([watcher EXCEPT !.timeouts = @ - 1], calls, 1).watcher,
               passes([watcher EXCEPT !.timeouts = @ - 1],
                      IF calls.oldTimeouts > 0
                      THEN [stalePass(calls, watcher) EXCEPT !.oldTimeouts = @ - 1]
                      ELSE calls, 1).calls)

\* A property of the subscribed shape n changes.
Signal(n) ==
  /\ n \in watcher.subscribed \cup watcher.oldSubscribed
  /\ ~calls.frameRan
  /\ WatchStep(handlePropertyChange(watcher, n),
               [calls EXCEPT !.signalled = @ \cup {n},
                             !.oldFrames = IF watcher.frames = 0
                                                /\ n \in watcher.oldSubscribed
                                           THEN 1 ELSE @])

\* The animation frame that ends the tick: every callback handed to
\* requestAnimationFrame runs.
AnimationFrame ==
  /\ ~calls.frameRan
  /\ WatchStep(IF calls.oldFrames > 0
               THEN staleShapeChanges([watcher EXCEPT !.frames = 0])
               ELSE passes([watcher EXCEPT !.frames = 0], calls,
                           watcher.frames).watcher,
               [passes([watcher EXCEPT !.frames = 0],
                       IF calls.oldFrames > 0
                       THEN [stalePass(calls, watcher) EXCEPT !.oldFrames = 0]
                       ELSE calls, watcher.frames).calls
                  EXCEPT !.frameRan = TRUE])

\* The next animation tick begins.
NextTick ==
  /\ calls.frameRan
  /\ WatchStep(watcher, [calls EXCEPT !.modifiedCalls = <<>>, !.signalled = {},
                                      !.frameRan = FALSE])

NextWatch ==
  \/ \E keep \in SUBSET watcher.stageShapes :
       \E k \in 0..(MaxShapes - watcher.idCounter) : CommitChildren(keep, k)
  \/ RunEffect
  \/ TimeoutPass
  \/ \E n \in ShapeIds : Signal(n)
  \/ AnimationFrame
  \/ NextTick

SpecWatch == InitWatch /\ [][NextWatch]_vars

----------------------------------------------------------------------------
(* The Callback Dispatcher on its own *)

MaxDispatchSteps == 3

InitDispatch ==
  /\ InitFresh
  /\ optClamp = TRUE
  /\ boundsWidth = Undefined
  /\ boundsHeight = Undefined
  /\ now = 0
  /\ lastZoomTime = 0
  /\ steps = 0
  /\ last = LastAt(FALSE, "mount", NoPoint, NoPoint, Undefined, CurEnv, CurQ)
  /\ gIn = NoCall
  /\ gOut = NoResult
  /\ WatcherIdle
  /\ WidgetsIdle

\* One step of the dispatcher or of its timers.
DispatchStep(d, em) ==
  /\ dispatcher' = d
  /\ emitted' = em
  /\ UNCHANGED <<progVars, geomVars, watchVars, minimap, stage>>

\* A step of the host: it is counted.
HostStep(d, em) ==
  /\ dispatcher.mounted
  /\ emitted.steps < MaxDispatchSteps
  /\ DispatchStep(d, [em EXCEPT !.steps = @ + 1])

\* The observed quantity of channel ch changes to v: the render's effect calls the
\* channel's throttle with it (lines 55-72).
Change(ch, v) ==
  /\ v # dispatcher.value[ch]
  /\ HostStep(callThrottles([dispatcher EXCEPT !.value[ch] = v], {ch}),
              callEmits([dispatcher EXCEPT !.value[ch] = v], emitted, {ch}))

\* The host renders with new callback functions: useMemo makes new throttles
\* (lines 33-52), the cleanup cancels the old ones (lines 75-81) and every effect
\* of lines 55-72 runs again.
NewCallbacks ==
  HostStep(callThrottles([cancelThrottles(dispatcher) EXCEPT !.gen = @ + 1], Channels),
           callEmits([cancelThrottles(dispatcher) EXCEPT !.gen = @ + 1], emitted,
                     Channels))

\* The surface is unmounted: the cleanup of lines 75-81 runs.
Unmount ==
  HostStep([cancelThrottles(dispatcher) EXCEPT !.mounted = FALSE], emitted)

\* The window of the throttle th ends: its trailing edge.
TimerFire(th) ==
  /\ th \in dispatcher.throttles
  /\ th.left = 0
  /\ DispatchStep([dispatcher EXCEPT !.throttles = @ \ {th}],
                  IF trailingValue(th) # NoValue
                  THEN invoke(emitted, {th.ch},
                              [ch \in Channels |-> trailingValue(th)],
                              dispatcher.mounted /\ th.gen = dispatcher.gen)
                  ELSE emitted)

\* One clock tick passes; no timer is overdue.
DispatchTick ==
  /\ \A th \in dispatcher.throttles : th.left > 0
  /\ \/ dispatcher.throttles # {}
     \/ \E ch \in Channels : emitted.age1[ch] < throttleMs \/ emitted.age2[ch] < throttleMs
  /\ DispatchStep([dispatcher EXCEPT !.throttles =
                     {[th EXCEPT !.left = @ - 1] : th \in @}],
                  [emitted EXCEPT
                     !.age1 = [ch \in Channels |->
                                 IF @[ch] < throttleMs THEN @[ch] + 1 ELSE @[ch]],
                     !.age2 = [ch \in Channels |->
                                 IF @[ch] < throttleMs THEN @[ch] + 1 ELSE @[ch]]])

TimersFire == \E th \in dispatcher.throttles : TimerFire(th)

NextDispatch ==
  \/ \E ch \in Channels, v \in ValueSet : Change(ch, v)
  \/ NewCallbacks
  \/ Unmount
  \/ TimersFire
  \/ DispatchTick

SpecDispatch == InitDispatch /\ [][NextDispatch]_vars

\* The clock runs and due timers fire.
SpecDispatchLive ==
  SpecDispatch /\ WF_vars(DispatchTick) /\ WF_vars(TimersFire)

----------------------------------------------------------------------------
(* The Minimap widget on its own, next to a settled viewport *)

MaxMinimapSteps == 4

InitMinimap ==
  /\ InitSettled
  /\ boundsWidth = Undefined
  /\ boundsHeight = Undefined
  /\ now = 0
  /\ lastZoomTime = 0
  /\ steps = 0
  /\ last = LastAt(FALSE, "mount", NoPoint, NoPoint, Undefined, CurEnv, CurQ)
  /\ gIn = NoCall
  /\ gOut = NoResult
  /\ WatcherIdle
  /\ dispatcher = DispatcherMounted
  /\ emitted = EmittedAtMount
  /\ \E pct \in MinimapPctSet : minimap = MinimapMounted(container, pct)
  /\ stage = StageIdle

\* One step of the widget.
MinimapStep(m) ==
  /\ minimap' = m
  /\ UNCHANGED <<progVars, geomVars, watchVars, dispatcher, emitted, stage>>

\* A step of the user or the host: it is counted.
MinimapEvent(m) ==
  /\ minimap.steps < MaxMinimapSteps
  /\ MinimapStep([m EXCEPT !.steps = @ + 1])

\* The host renders the widget with another container or size fraction: the
\* effect of lines 31-40 runs and its update is rendered.
MinimapProps(cont, pct) ==
  /\ cont # minimap.container \/ pct # minimap.minimapPct
  /\ MinimapEvent(minimapResize(minimap, cont, pct))

\* onMouseDown on the widget, lines 23-25.
MinimapDragStart == MinimapEvent([minimap EXCEPT !.qDragging = TRUE])

\* A mousemove on the window while the rendered widget is dragging, lines 43-67.
MinimapDragMove(e) ==
  /\ minimap.dragging
  /\ MinimapEvent(minimapDragMove(minimap, e))

\* A mouseup on the window while the rendered widget is dragging, lines 27-29, 66.
MinimapDragEnd ==
  /\ minimap.dragging
  /\ MinimapEvent([minimap EXCEPT !.qDragging = FALSE])

\* React renders the widget's queued state.
MinimapRender ==
  /\ minimap.position # minimap.qPosition \/ minimap.dragging # minimap.qDragging
  /\ MinimapStep([minimap EXCEPT !.position = minimap.qPosition,
                                 !.dragging = minimap.qDragging])

NextMinimap ==
  \/ \E cont \in ContainerSet, pct \in MinimapPctSet : MinimapProps(cont, pct)
  \/ MinimapDragStart
  \/ \E e \in MovementSet : MinimapDragMove(e)
  \/ MinimapDragEnd
  \/ MinimapRender

SpecMinimap == InitMinimap /\ [][NextMinimap]_vars

----------------------------------------------------------------------------
(* The Bounds Tracker and the preview on a stage that may be missing *)

MaxStageSteps == 2

MaxRetried == 2

InitStage ==
  /\ InitFresh \/ InitSettled
  /\ WatcherIdle
  /\ dispatcher = DispatcherMounted
  /\ emitted = EmittedAtMount
  /\ minimap = MinimapMounted(NoContainer, Zero)
  /\ \E attached \in BOOLEAN, layer \in BOOLEAN, enabled \in BOOLEAN :
       stage = StageAt(attached, layer, enabled, scale, position)
  /\ boundsWidth = Undefined
  /\ boundsHeight = Undefined
  /\ now = 0
  /\ lastZoomTime = 0
  /\ steps = 0
  /\ last = LastAt(FALSE, "mount", NoPoint, NoPoint, Undefined, CurEnv, CurQ)
  /\ gIn = NoCall
  /\ gOut = NoResult

\* One step on the stage: it may queue new bounds.
StageStep(st, qb) ==
  /\ stage' = st
  /\ qBounds' = qb
  /\ UNCHANGED <<scale, position, isDragging, bounds, container, qScale, qPosition,
                 qDragging, qContainer, previousContainer, lastMousePos, optClamp,
                 capClamp, loading, nodes, boundsWidth, boundsHeight, now,
                 lastZoomTime, steps, last, geomVars, watchVars, dispatcher,
                 emitted, minimap>>

\* A step of the host or of a callback: it is counted.
StageEvent(st, qb) ==
  /\ stage.steps < MaxStageSteps
  /\ StageStep([st EXCEPT !.steps = @ + 1], qb)

\* updateBounds is called by its effect or by a node-change callback.
CallUpdateBounds ==
  StageEvent([scheduleRetry(stage) EXCEPT !.outcome = outcomeOf(stage, nodes)],
             stageUpdateBounds(stage, bounds, qBounds, nodes, boundsWidth,
                               boundsHeight))

\* The timer of a retry fires: what the retry does to the stage's timers.
RetryRuns ==
  /\ stage.retries > 0
  /\ stage' = [scheduleRetry([stage EXCEPT !.retries = @ - 1])
                 EXCEPT !.outcome = outcomeOf(stage, nodes),
                        !.retried = IF @ < MaxRetried THEN @ + 1 ELSE @]

\* A retry scheduled by setTimeout(updateBounds, 0) runs.
RetryTick ==
  /\ RetryRuns
  /\ StageStep(stage', stageUpdateBounds(stage, bounds, qBounds, nodes, boundsWidth,
                                         boundsHeight))

\* capturePreview is called by its throttle.
CapturePreview == StageEvent(capturePreview(stage), qBounds)

\* The interactive layer is mounted or unmounted.
MountLayer(b) ==
  /\ b # stage.layer
  /\ StageEvent([stage EXCEPT !.layer = b], qBounds)

\* stageRef.current is set or cleared.
AttachStage(b) ==
  /\ b # stage.attached
  /\ StageEvent([stage EXCEPT !.attached = b], qBounds)

\* The minimap is enabled or disabled and the effect of lines 177-182 has run.
EnableMinimap(b) ==
  /\ b # stage.enabled
  /\ StageEvent([stage EXCEPT !.enabled = b], qBounds)

NextStage ==
  \/ CallUpdateBounds
  \/ RetryTick
  \/ CapturePreview
  \/ \E b \in BOOLEAN : MountLayer(b)
  \/ \E b \in BOOLEAN : AttachStage(b)
  \/ \E b \in BOOLEAN : EnableMinimap(b)
  \/ \E ids \in SUBSET NodeIds : SetNodes(ids)

SpecStage == InitStage /\ [][NextStage]_vars

\* A timer that is due fires.
SpecStageLive == SpecStage /\ WF_stage(RetryRuns)

----------------------------------------------------------------------------
(* Properties of the Transform Model *)

InRange(s) == Le(minZoom, s) /\ Le(s, Int2Num(maxZoom))

\* The operations that end in a call of setPosition.
SetPositionOps ==
  {"handleZoom", "zoomToElement", "resetZoom", "dragMove", "wheelPan", "resize",
   "autoReset", "resize+reset"}

\* The scale the latest setPosition handed to the clamp: newScale ?? scale.
ClampScale == IF last.s # Undefined THEN last.s ELSE last.env.scale

\* The limits of clampPosition at scale s for the bounds and container of the
\* render the latest operation ran in.
LimitsAt(s) == clampLimits(s, last.env.container, last.env.bounds)

AtLeastMin(lim, p) == Le(lim.minPosX, p.x) /\ Le(lim.minPosY, p.y)

AtMostMax(lim, p) == Le(p.x, lim.maxPosX) /\ Le(p.y, lim.maxPosY)

C2_CommittedWithinLimits ==
  (last.op \in SetPositionOps /\ last.opt) =>
    AtLeastMin(LimitsAt(qScale), qPosition) /\ AtMostMax(LimitsAt(qScale), qPosition)

\* C2 (amended): when the clampPosition value held by clampAndSetPosition is true,
\* every position committed by setPosition is at least minPos on each axis, and at
\* most maxPos on an axis where minPos <= maxPos; the limits are taken at the
\* scale handed to the clamp (newScale, or the scale of the render when none is
\* given).  Below the fit scale minPos exceeds maxPos and the position is minPos.
C2_CommittedAtLeastMin ==
  (last.op \in SetPositionOps /\ last.env.clampPosition) =>
    /\ AtLeastMin(LimitsAt(ClampScale), qPosition)
    /\ Le(LimitsAt(ClampScale).minPosX, LimitsAt(ClampScale).maxPosX) =>
         Le(qPosition.x, LimitsAt(ClampScale).maxPosX)
    /\ Le(LimitsAt(ClampScale).minPosY, LimitsAt(ClampScale).maxPosY) =>
         Le(qPosition.y, LimitsAt(ClampScale).maxPosY)
    /\ Lt(LimitsAt(ClampScale).maxPosX, LimitsAt(ClampScale).minPosX) =>
         qPosition.x = LimitsAt(ClampScale).minPosX
    /\ Lt(LimitsAt(ClampScale).maxPosY, LimitsAt(ClampScale).minPosY) =>
         qPosition.y = LimitsAt(ClampScale).minPosY

\* A zoom below the fit scale with the clamp on: minPos exceeds maxPos and the
\* committed position is not the candidate.
C2_Witness ==
  /\ last.op = "handleZoom"
  /\ last.env.clampPosition
  /\ Lt(LimitsAt(ClampScale).maxPosX, LimitsAt(ClampScale).minPosX)
  /\ qPosition # last.candidate

\* C3: at the moment setPosition is called the current value of the clampPosition
\* option decides the outcome, whatever values it had earlier: the candidate is
\* committed as it is when the option is false, and clamped when it is true.
\* Stated for the callers of setPosition in useDragHandlers, useWheelHandlers and
\* useStageResize.
C3_CurrentOptionDecides ==
  last.op \in {"dragMove", "wheelPan", "resize"} =>
    qPosition = IF last.opt
                THEN clampPosition(last.candidate, ClampScale, last.env.container,
                                   last.env.bounds)
                ELSE last.candidate

\* C10 (as stated): after handleZoom the world point under the pointer is
\* unchanged, whether or not clamping is enabled and whether or not the scale was
\* limited.
AnchorKept ==
  /\ Div(Sub(last.pointer.x, qPosition.x), qScale)
       = Div(Sub(last.pointer.x, last.env.position.x), last.env.scale)
  /\ Div(Sub(last.pointer.y, qPosition.y), qScale)
       = Div(Sub(last.pointer.y, last.env.position.y), last.env.scale)

C10_AnchorAlwaysKept == last.op = "handleZoom" => AnchorKept

\* C10 (amended): after handleZoom the world point under the pointer is unchanged
\* when the clamp held by clampAndSetPosition is off or leaves the anchored
\* position as it is, whether or not the scale was limited by minZoom/maxZoom.
C10_AnchorKeptUnlessClamped ==
  (/\ last.op = "handleZoom"
   /\ \/ ~last.env.clampPosition
      \/ clampPosition(last.candidate, ClampScale, last.env.container,
                       last.env.bounds) = last.candidate)
  => AnchorKept

\* A zoom-out limited by minZoom with the clamp off, at a pointer away from the origin
\* of a surface that has been fitted.
C10_Witness ==
  /\ last.op = "handleZoom"
  /\ ~last.env.clampPosition
  /\ qScale = minZoom
  /\ Lt(qScale, last.env.scale)
  /\ qPosition # last.env.position

----------------------------------------------------------------------------
(* Properties of the geometry utilities *)

\* The bounds and the container of the call have positive widths and heights.
PositiveDimensions ==
  /\ Gt(gIn.bounds.width, Zero) /\ Gt(gIn.bounds.height, Zero)
  /\ Gt(gIn.container.width, Zero) /\ Gt(gIn.container.height, Zero)

AnyZeroDimension ==
  \/ gIn.bounds.width = Zero \/ gIn.bounds.height = Zero
  \/ gIn.container.width = Zero \/ gIn.container.height = Zero

\* The fit scale of the call's bounds and container.
FitScale == calculateScale(gIn.bounds, gIn.container).x

RangeX(lim) == Sub(lim.maxPosX, lim.minPosX)

RangeY(lim) == Sub(lim.maxPosY, lim.minPosY)

\* C4: clampPosition is idempotent for every position, scale, container and
\* bounds: clamping what it returned returns the same x and y (on degenerate
\* bounds both calls return NaN coordinates), also below the fit scale where
\* minPos exceeds maxPos.
C4_ClampIdempotent == gOut.fn = "clampPosition" => gOut.twice = gOut.once

\* A clamp below the fit scale that moved the position.
C4_Witness ==
  /\ gOut.fn = "clampPosition"
  /\ PositiveDimensions
  /\ Lt(gIn.scale, FitScale)
  /\ Lt(clampLimits(gIn.scale, gIn.container, gIn.bounds).maxPosX,
        clampLimits(gIn.scale, gIn.container, gIn.bounds).minPosX)
  /\ gOut.once # gIn.position
  /\ IsFinite(gOut.once.x) /\ IsFinite(gOut.once.y)

\* C5: at the fit scale of bounds and container with positive dimensions,
\* clampPosition returns initialPosition(bounds, container, fitScale) for every
\* candidate: minPos and maxPos are both the initial position on both axes.
C5_FitScalePinsPosition ==
  (gOut.fn = "clampPosition" /\ PositiveDimensions /\ gIn.scale = FitScale) =>
    /\ gOut.once = calculateInitialPosition(gIn.bounds, gIn.container, FitScale)
    /\ clampLimits(FitScale, gIn.container, gIn.bounds) =
         [maxPosX |-> gOut.once.x, minPosX |-> gOut.once.x,
          maxPosY |-> gOut.once.y, minPosY |-> gOut.once.y]

\* A candidate away from the initial position clamped at the fit scale of content
\* that does not start at the origin.
C5_Witness ==
  /\ gOut.fn = "clampPosition"
  /\ PositiveDimensions
  /\ gIn.scale = FitScale
  /\ gIn.bounds.x # Zero
  /\ gOut.once # gIn.position

\* C6 (as stated): for bounds and container with positive dimensions and scales
\* s1 < s2 at or above the fit scale, the panning range maxPos - minPos at s2 is
\* no larger than at s1 on each axis.
C6_RangeShrinks ==
  (/\ gOut.fn = "clampLimits"
   /\ PositiveDimensions
   /\ Le(FitScale, gIn.scale)
   /\ Lt(gIn.scale, gIn.scale2))
  => /\ Le(RangeX(gOut.limits2), RangeX(gOut.limits))
     /\ Le(RangeY(gOut.limits2), RangeY(gOut.limits))

\* C6 (amended): for bounds and container with positive dimensions the panning
\* range at scale s is container size * (s / fitScale - 1) on each axis: zero at
\* the fit scale, and for scales s1 < s2 at or above the fit scale strictly larger
\* at s2 than at s1.
C6_RangeGrows ==
  (/\ gOut.fn = "clampLimits"
   /\ PositiveDimensions
   /\ Le(FitScale, gIn.scale)
   /\ Lt(gIn.scale, gIn.scale2))
  => /\ Lt(RangeX(gOut.limits), RangeX(gOut.limits2))
     /\ Lt(RangeY(gOut.limits), RangeY(gOut.limits2))
     /\ RangeX(gOut.limits) =
          Mul(gIn.container.width, Sub(Div(gIn.scale, FitScale), One))
     /\ RangeY(gOut.limits) =
          Mul(gIn.container.height, Sub(Div(gIn.scale, FitScale), One))
     /\ gIn.scale = FitScale =>
          RangeX(gOut.limits) = Zero /\ RangeY(gOut.limits) = Zero

\* The limits at the fit scale and at twice the fit scale.
C6_Witness ==
  /\ gOut.fn = "clampLimits"
  /\ PositiveDimensions
  /\ gIn.scale = FitScale
  /\ gIn.scale2 = Mul(Two, FitScale)
  /\ RangeX(gOut.limits) = Zero
  /\ RangeX(gOut.limits2) = gIn.container.width

\* C7: for bounds and containers whose widths and heights are all positive,
\* calculateScale returns min(container.width / bounds.width,
\* container.height / bounds.height) on both axes, x equal to y, finite and
\* strictly positive.
C7_ScaleIsMinRatio ==
  (gOut.fn = "calculateScale" /\ PositiveDimensions) =>
    /\ gOut.scale.x = gOut.scale.y
    /\ Le(gOut.scale.x, Div(gIn.container.width, gIn.bounds.width))
    /\ Le(gOut.scale.x, Div(gIn.container.height, gIn.bounds.height))
    /\ gOut.scale.x \in {Div(gIn.container.width, gIn.bounds.width),
                         Div(gIn.container.height, gIn.bounds.height)}
    /\ IsFinite(gOut.scale.x)
    /\ Gt(gOut.scale.x, Zero)

\* A fit limited by the height: the two ratios differ.
C7_Witness ==
  /\ gOut.fn = "calculateScale"
  /\ PositiveDimensions
  /\ Lt(Div(gIn.container.height, gIn.bounds.height),
        Div(gIn.container.width, gIn.bounds.width))
  /\ gOut.scale.x = Div(gIn.container.height, gIn.bounds.height)

\* C8: calculateScale returns 1 whenever any input dimension is 0, a dimension of
\* the container or of the bounds, so that no infinite or undefined scale is
\* returned.
C8_ZeroDimensionGivesOne ==
  (gOut.fn = "calculateScale" /\ AnyZeroDimension) =>
    gOut.scale = [x |-> One, y |-> One]

\* C9: for positive dimensions getResetTransform maps the centre of the bounds box
\* to the centre of the container and its visible rectangle contains the whole
\* bounds box; bounds {0,0,1000,500} in container {800,400} give scale 0.8 and
\* position {0,0}.
C9_ResetFitsAndCentres ==
  (gOut.fn = "getResetTransform" /\ PositiveDimensions) =>
    /\ gOut.transform.scale = FitScale
    /\ Add(gOut.transform.position.x,
           Mul(Add(gIn.bounds.x, Div(gIn.bounds.width, Two)), gOut.transform.scale))
         = Div(gIn.container.width, Two)
    /\ Add(gOut.transform.position.y,
           Mul(Add(gIn.bounds.y, Div(gIn.bounds.height, Two)), gOut.transform.scale))
         = Div(gIn.container.height, Two)
    /\ Le(gOut.rect.left, gIn.bounds.x)
    /\ Le(gOut.rect.top, gIn.bounds.y)
    /\ Le(Add(gIn.bounds.x, gIn.bounds.width), gOut.rect.right)
    /\ Le(Add(gIn.bounds.y, gIn.bounds.height), gOut.rect.bottom)
    /\ (/\ gIn.bounds = Box(Zero, Zero, Int2Num(1000), Int2Num(500))
        /\ gIn.container = Dim(Int2Num(800), Int2Num(400)))
       => gOut.transform = [scale |-> Num(4, 5), position |-> Pt(Zero, Zero)]

\* The scenario of the specification: 1000 x 500 content in an 800 x 400 container.
C9_Witness ==
  /\ gOut.fn = "getResetTransform"
  /\ gIn.bounds = Box(Zero, Zero, Int2Num(1000), Int2Num(500))
  /\ gIn.container = Dim(Int2Num(800), Int2Num(400))
  /\ gOut.transform.scale = Num(4, 5)

----------------------------------------------------------------------------
(* Properties of handleZoom called on its own *)

\* The scenario of the specification with the direction given.
ZoomScenario(direction) ==
  /\ gOut.fn = "handleZoom"
  /\ gIn.scale = One
  /\ gIn.position = Pt(Zero, Zero)
  /\ gIn.zoom = [pointer |-> Pt(Int2Num(100), Int2Num(100)), direction |-> direction,
                 delta |-> Int2Num(10)]

ZoomedToThree ==
  gOut.transform = [scale |-> Int2Num(3),
                    position |-> Pt(Int2Num(-200), Int2Num(-200))]

----------------------------------------------------------------------------
(* Properties of the Resize Adapter *)

\* The world point at the centre of container cont under scale s and position p.
CentreOf(p, s, cont) ==
  Pt(Div(Add(Neg(p.x), Div(cont.width, Two)), s),
     Div(Add(Neg(p.y), Div(cont.height, Two)), s))

\* The render in which only the resize effect committed.
Resized == last.op = "resize"

\* The world point at the centre of the previous container is at the centre of the
\* new container under the committed scale and position.
CentreKept ==
  CentreOf(qPosition, qScale, last.env.container)
    = CentreOf(last.env.position, last.env.scale, last.prev)

\* The clamp left the position updateTransform computed as it was.
ResizeUnclamped ==
  \/ ~last.env.clampPosition
  \/ clampPosition(last.candidate, last.s, last.env.container, last.env.bounds)
       = last.candidate

\* C12 (as stated): whenever the container dimensions change and the Resize
\* Adapter runs, the world point that was at the centre of the previous container
\* is the world point at the centre of the new container under the committed
\* scale and position, with position clamping enabled as well as disabled.
C12_CentreAlwaysKept == Resized => CentreKept

\* C12 (amended): whenever the container dimensions change and the Resize Adapter
\* runs, the world point that was at the centre of the previous container is the
\* world point at the centre of the new container under the committed scale and
\* position, provided the clamp held by clampAndSetPosition is off or leaves the
\* computed position unchanged.
C12_CentreKeptUnlessClamped == Resized /\ ResizeUnclamped => CentreKept

\* A resize from a measured container, with the clamp off, that moved the position.
C12_Witness ==
  /\ Resized
  /\ ~last.env.clampPosition
  /\ last.prev # NoContainer
  /\ qPosition # last.env.position
  /\ CentreKept


\* The render in which the resize effect ran.
ResizeRan == last.op \in {"resize", "resize+reset"}

\* scale / fitScale(bounds, cont)
RelativeScale(s, bnds, cont) == Div(s, calculateScale(bnds, cont).x)

\* C13: a container resize preserves the relative zoom: the new scale over the fit
\* scale of the new container equals the old scale over the fit scale of the
\* previous container, the resize effect commits that new scale, and afterwards
\* the stored previous-container dimensions are the new container dimensions.
C13_RelativeZoomKept ==
  /\ ResizeRan =>
       /\ RelativeScale(resizeScale(last.env, last.prev), last.env.bounds,
                        last.env.container)
            = RelativeScale(last.env.scale, last.env.bounds, last.prev)
       /\ previousContainer = last.env.container
  /\ Resized =>
       RelativeScale(qScale, last.env.bounds, last.env.container)
         = RelativeScale(last.env.scale, last.env.bounds, last.prev)

\* A resize between two measured containers at a scale other than the fit scale.
C13_Witness ==
  /\ Resized
  /\ last.prev # NoContainer
  /\ last.env.scale # calculateScale(last.env.bounds, last.prev).x
  /\ qScale # last.env.scale
  /\ previousContainer = last.env.container

----------------------------------------------------------------------------
(* Properties of the Change Watcher *)

\* The shape n entered the stage through a commit after mount.
Entered(n) == calls.enteredWith[n] > 0

\* C14: every node that enters the live node set is reported to onNodesAdded
\* exactly once (never twice, and never not at all once the watcher tracks it), and
\* the nodes that entered together are reported in one and the same call.
C14_EnteredNodesReportedOnce ==
  /\ \A n \in ShapeIds : calls.timesAdded[n] <= 1
  /\ \A n \in ShapeIds :
       Entered(n) /\ n \in watcher.shapesRef => calls.timesAdded[n] = 1
  /\ \A n, m \in ShapeIds :
       /\ Entered(n)
       /\ calls.enteredWith[n] = calls.enteredWith[m]
       /\ calls.timesAdded[n] = 1
       /\ calls.timesAdded[m] = 1
       => calls.addedIn[n] = calls.addedIn[m]

\* The calls of onNodesModified in this animation tick that contain the shape n.
ModifiedCallsWith(n) ==
  {i \in 1..Len(calls.modifiedCalls) : n \in calls.modifiedCalls[i]}

\* C15: within one animation tick observers receive at most one onNodesModified
\* call, and once the frame of the tick has run that call contains every
\* signalled node that is still live.
C15_OneModifiedCallPerTick ==
  /\ Len(calls.modifiedCalls) <= 1
  /\ calls.frameRan =>
       \A n \in calls.signalled \cap watcher.stageShapes :
         Cardinality(ModifiedCallsWith(n)) = 1

----------------------------------------------------------------------------
(* Properties of the Bounds Tracker *)

\* A node-change callback recomputed the bounds and found nodes.
Recomputed == last.op \in {"setBounds", "updateBounds"} /\ nodes # {}

\* The candidate of that recomputation.
CandidateBounds ==
  newBoundsOf(nodes, last.env.scale, last.env.position, boundsWidth, boundsHeight)

\* C16: a bounds recomputation commits if and only if the candidate differs from
\* the bounds stored at the time of the recomputation by more than 1 unit in at
\* least one of x, y, width, height; otherwise the stored bounds are left as
\* they were.
C16_DeadBandAgainstStored ==
  Recomputed =>
    /\ last.op = "setBounds" <=> significantChange(CandidateBounds, last.stored)
    /\ last.op = "setBounds" => qBounds = CandidateBounds
    /\ last.op = "updateBounds" => qBounds = last.stored


\* C17: in every reachable state the stored bounds have width >= 1 and
\* height >= 1, for nodes anywhere in world space and any manual bounds.
C17_BoundsAtLeastOne ==
  /\ Le(One, bounds.width) /\ Le(One, bounds.height)
  /\ Le(One, qBounds.width) /\ Le(One, qBounds.height)

\* The box b encloses the box w.
Encloses(b, w) ==
  /\ Le(b.x, w.x)
  /\ Le(b.y, w.y)
  /\ Le(Add(w.x, w.width), Add(b.x, b.width))
  /\ Le(Add(w.y, w.height), Add(b.y, b.height))

\* C18: after a recomputation that found at least one node and committed, with
\* automatic bounds, the stored bounds enclose the world box of every node.
C18_BoundsEncloseNodes ==
  /\ last.op = "setBounds"
  /\ boundsWidth = Undefined
  /\ boundsHeight = Undefined
  => \A id \in nodes :
       Encloses(qBounds, getWorldBox(id, last.env.scale, last.env.position))

----------------------------------------------------------------------------
(* Properties of the Drag Controller *)

\* The step is the input event op.
Handled(op) == steps' = steps + 1 /\ last'.op = op

\* The step is a call of handleDragMove.
DragMoveCalled == Handled("dragMove") \/ Handled("dragMoveIgnored")

DragOrigin == getResetTransform(bounds, container).position

\* C20: with clamping disabled, after any number of onDragMove events of a drag
\* the total change of the committed position equals the displacement of the
\* pointer from the start sample to the last move sample, however the moves are
\* interleaved with renders.
C20_DragTracksPointer ==
  last.op = "dragMove" /\ ~last.env.clampPosition =>
    qPosition = Pt(Add(DragOrigin.x, Sub(lastMousePos.x, DragSample.x)),
                   Add(DragOrigin.y, Sub(lastMousePos.y, DragSample.y)))

----------------------------------------------------------------------------
(* Properties of the Wheel Router *)

\* The time since the last recorded zoom time is within the cooldown.
InCooldown == now - lastZoomTime <= zoomPanTransitionDelay

\* The step is a wheel event without modifier that the router handles.
PanHandled(p, d, i) == WheelPan(p, d, i) /\ ~loading /\ p # NoPoint

\* The step is a wheel event with a modifier that the router handles.
ZoomHandled == \E p \in PointerSet, dy \in WheelDeltaSet : WheelZoom(p, dy) /\ ~loading

\* A wheel event without modifier is discarded in the cooldown when the classifier
\* says it is not intentional, and only then.
CooldownRule ==
  /\ \A p \in PointerSet, d \in PanDeltaSet :
       PanHandled(p, d, FALSE) /\ InCooldown => UNCHANGED <<qScale, qPosition>>
  /\ \A p \in PointerSet, d \in PanDeltaSet, i \in BOOLEAN :
       PanHandled(p, d, i) /\ ~(~i /\ InCooldown)
         => /\ last'.op = "wheelPan"
            /\ qPosition' = wheelPan(CurEnv, CurQ, d.x, d.y).position

\* C21 (as stated): a wheel event without ctrl/meta, classified as not
\* intentional, at most zoomPanTransitionDelay after the last recorded zoom time
\* leaves position and scale unchanged; a handled non-modifier wheel event is
\* discarded only under that condition; and the last zoom time is the time of the
\* most recent modifier-held wheel event: it changes in such events only.
C21_ZoomTimeIsLastZoomEvent ==
  [][/\ CooldownRule
     /\ ZoomHandled => lastZoomTime' = now
     /\ lastZoomTime' # lastZoomTime => ZoomHandled]_vars

\* C21 (amended): a wheel event without ctrl/meta, classified as not intentional,
\* at most zoomPanTransitionDelay after the last recorded zoom time leaves position
\* and scale unchanged; a handled non-modifier wheel event is discarded only under
\* that condition; and the last zoom time is the time of the most recent handled
\* modifier-held wheel event or release of the Meta or Control key (the mount time
\* before either).
C21_ZoomTimeIsLastZoomOrKeyUp ==
  [][/\ CooldownRule
     /\ ZoomHandled \/ KeyUp => lastZoomTime' = now
     /\ lastZoomTime' # lastZoomTime => ZoomHandled \/ KeyUp]_vars

\* A wheel event discarded in the cooldown that a key release started.
C21_Witness ==
  /\ last.op = "wheelDiscarded"
  /\ lastZoomTime > 0
  /\ qScale = last.q.scale
  /\ qPosition = last.q.position

\* The routing of wheel events, with the direction that a zoom gesture of
\* vertical delta dy hands to handleZoom given by directionOf.
WheelRouting(directionOf(_)) ==
  /\ \A p \in PointerSet, dy \in WheelDeltaSet :
       WheelZoom(p, dy) /\ ~loading
         => /\ last'.op = "handleZoom"
            /\ last'.call = ZoomCall(directionOf(dy), MathAbs(dy))
            /\ Queue(handleZoom(CurEnv, CurQ, p, directionOf(dy), MathAbs(dy)))
            /\ lastZoomTime' = now
  /\ \A p \in PointerSet, d \in PanDeltaSet, i \in BOOLEAN :
       PanHandled(p, d, i) /\ ~wheelDiscarded(i)
         => /\ last'.op = "wheelPan"
            /\ Queue(setPosition(CurEnv, CurQ,
                                 Pt(Sub(position.x, Mul(d.x, MathSqrt(panSpeed))),
                                    Sub(position.y, Mul(d.y, MathSqrt(panSpeed)))),
                                 Undefined))
            /\ lastZoomTime' = lastZoomTime
  /\ (\/ \E dy \in WheelDeltaSet : WheelZoom(NoPoint, dy)
      \/ \E d \in PanDeltaSet, i \in BOOLEAN : WheelPan(NoPoint, d, i))
       => UNCHANGED <<scale, position, qScale, qPosition, lastZoomTime>>

\* C34 (as stated): a wheel event with ctrl or meta held calls handleZoom with
\* direction = sign of the vertical delta and magnitude |vertical delta|, records
\* the event time as last zoom time and performs no pan; a wheel event without
\* modifier that is not discarded commits position - (dx, dy) * sqrt(panSpeed)
\* through setPosition; a wheel event with no pointer position or no stage changes
\* nothing.
C34_DirectionIsSign == [][WheelRouting(MathSign)]_vars

\* The direction of line 194: +1 for a positive vertical delta, -1 otherwise.
PositiveOrMinusOne(dy) == IF Gt(dy, Zero) THEN One ELSE Neg(One)

\* C34 (amended): a wheel event with ctrl or meta held calls handleZoom with
\* direction +1 when the vertical delta is positive and -1 otherwise (-1 for a
\* vertical delta of zero) and magnitude |vertical delta|, records the event time
\* as last zoom time and performs no pan; a wheel event without modifier that is
\* not discarded commits position - (dx, dy) * sqrt(panSpeed) through setPosition;
\* a wheel event with no pointer position or no stage changes nothing.
C34_DirectionIsPositiveOrMinusOne == [][WheelRouting(PositiveOrMinusOne)]_vars

\* A modifier-held wheel event without vertical delta was routed to handleZoom.
C34_Witness ==
  /\ last.op = "handleZoom"
  /\ last.call = ZoomCall(Neg(One), Zero)
  /\ lastZoomTime = now
  /\ now > 0

\* The step is a wheel event, with or without ctrl or meta.
WheelEvent ==
  \/ \E p \in PointerSet \cup {NoPoint}, dy \in WheelDeltaSet : WheelZoom(p, dy)
  \/ \E p \in PointerSet \cup {NoPoint}, d \in PanDeltaSet, i \in BOOLEAN :
       WheelPan(p, d, i)

\* C38: while the surface is loading every wheel event, with or without ctrl or
\* meta, leaves the position, the scale and the recorded last zoom time unchanged.
C38_LoadingIgnoresWheel ==
  [][loading /\ WheelEvent
       => UNCHANGED <<scale, position, qScale, qPosition, lastZoomTime>>]_vars

\* A wheel event with a pointer on the stage was ignored during loading, after
\* the clock had moved on from the recorded zoom time.
C38_Witness ==
  /\ loading
  /\ last.op = "wheelIgnored"
  /\ last.pointer # NoPoint
  /\ now > lastZoomTime

\* The step is a drag move or a wheel event without ctrl or meta.
PanStep ==
  \/ \E p \in DragPointerSet \cup {NoPoint} : handleDragMove(p)
  \/ \E p \in {PanPointer, NoPoint}, d \in PanDeltaSet, i \in BOOLEAN :
       WheelPan(p, d, i)

\* C37: a drag move and a wheel event without ctrl or meta leave the scale
\* unchanged, the rendered one and the one queued for the next render, and change
\* the position only to what setPosition commits.
C37_PanningNeverZooms ==
  [][PanStep
       => /\ scale' = scale
          /\ qScale' = qScale
          /\ position' = position
          /\ \/ qPosition' = qPosition
             \/ \E t \in {last'.candidate} :
                  qPosition' = setPosition(CurEnv, CurQ, t, Undefined).position]_vars

----------------------------------------------------------------------------
(* Properties of the Resize Adapter, continued *)

\* C36: with clamping disabled and the bounds unchanged, once the container is
\* back at the size it started with and every update is rendered, the scale and
\* the position are exactly those that held before the first resize.
C36_ResizeRoundTrip ==
  ~Dirty /\ container = gIn.container
    => scale = gIn.scale /\ position = gIn.position

\* The container went to another size, was rendered there, and came back: the
\* resize effect of the render at the first size has just queued the transform
\* the behaviour started with, which differs from the one rendered in between.
C36_Witness ==
  /\ last.op = "resize"
  /\ last.prev # container
  /\ container = gIn.container
  /\ qScale = gIn.scale /\ qPosition = gIn.position
  /\ scale # qScale /\ position # qPosition
  /\ steps = 2

----------------------------------------------------------------------------
(* Properties of the Callback Dispatcher *)

\* C22: each observer channel invokes its external callback at most once per
\* throttle interval apart from the leading/trailing pair of a window: no three
\* invocations of one channel lie less than throttleMs apart, however often the
\* host supplies new callback functions.
C22_NoBurstPerChannel == \A ch \in Channels : ~emitted.burst[ch]

\* C23: the first change of a window is delivered at once, and a value that stays
\* while the surface is mounted is eventually the one its callback was last
\* invoked with.
C23_FinalValueDelivered ==
  /\ [][\A ch \in Channels, v \in ValueSet :
          (Change(ch, v) /\ waiting(dispatcher, {ch}) = {})
             => emitted'.delivered[ch] = v]_vars
  /\ \A ch \in Channels :
        (dispatcher.mounted /\ emitted.delivered[ch] # dispatcher.value[ch])
           ~> (~dispatcher.mounted \/ emitted.delivered[ch] = dispatcher.value[ch])

\* A change made inside the mount's window has been delivered by the trailing edge.
C23_Witness ==
  /\ dispatcher.mounted /\ dispatcher.gen = 0
  /\ dispatcher.value["zoom"] = 1 /\ emitted.delivered["zoom"] = 1
  /\ throttleOf(dispatcher.throttles, "zoom", 0) = {}
  /\ emitted.age1["zoom"] = 0

\* C24: no callback is invoked by a throttle after the teardown that followed its
\* creation (the unmount, or the replacement of the throttles).
C24_NoInvocationAfterTeardown == ~emitted.late

\* The surface was unmounted while a changed value was waiting for the trailing edge.
C24_Witness ==
  /\ ~dispatcher.mounted
  /\ dispatcher.throttles = {}
  /\ emitted.delivered["position"] # dispatcher.value["position"]

----------------------------------------------------------------------------
(* Properties of the Change Watcher's teardown *)

\* C25: after a teardown of the watcher's effect no pass that was scheduled before
\* it runs, and no callback of the torn-down instance is called.
C25_NothingRunsAfterTeardown == ~calls.staleRan /\ ~calls.staleCalled

----------------------------------------------------------------------------
(* Properties of the Minimap widget *)

\* The point p lies between 0 and container * (1 - minimapPct) on both axes.
InsideContainer(p, m) ==
  /\ Le(Zero, p.x) /\ Le(p.x, Mul(m.container.width, Sub(One, m.minimapPct)))
  /\ Le(Zero, p.y) /\ Le(p.y, Mul(m.container.height, Sub(One, m.minimapPct)))

\* C26: the widget's position, as drawn and as last set, stays between 0 and
\* container * (1 - minimapPct) on both axes after every drag move and every change
\* of container or size fraction, and no step of the widget changes the
\* viewport's position or scale.
C26_MinimapStaysInside ==
  /\ [](InsideContainer(minimap.position, minimap)
        /\ InsideContainer(minimap.qPosition, minimap))
  /\ [][minimap' # minimap =>
          UNCHANGED <<position, scale, qPosition, qScale>>]_vars

\* A drag move was stopped at the far edge and the container then shrank.
C26_Witness ==
  /\ minimap.container = Dim(Int2Num(6), Int2Num(6))
  /\ minimap.minimapPct = Num(1, 4)
  /\ minimap.position = Pt(Num(9, 2), Zero)
  /\ minimap.qDragging

----------------------------------------------------------------------------
(* Properties of the automatic reset *)

\* C27: the automatic reset-to-fit fires at most once: the auto-reset effect never
\* calls resetZoom in a render when it has called it in an earlier one.
C27_AutoResetFiresOnce == ~(last.op \in ResetOps /\ last.resetBefore)

----------------------------------------------------------------------------
(* Properties of manual bounds *)

\* The stored dimension v is the configured one m, up to the dead-band.
Overridden(v, m) == m # Undefined => Le(MathAbs(Sub(v, m)), One)

\* C28: after a bounds recomputation the stored bounds width and height equal the
\* configured boundsWidth and boundsHeight, up to the dead-band of 1, whatever the
\* nodes are and whether or not there is any.
C28_ManualBoundsOverride ==
  last.op \in {"setBounds", "updateBounds"} =>
    /\ Overridden(qBounds.width, boundsWidth)
    /\ Overridden(qBounds.height, boundsHeight)

----------------------------------------------------------------------------
(* Properties of the diff pass *)

\* A single pass of handleShapeChanges runs.
PassStep == TimeoutPass \/ (AnimationFrame /\ watcher.frames = 1)

\* 1 if the batch is not empty, else 0.
CallsFor(batch) == IF batch = {} THEN 0 ELSE 1

\* C29: a diff pass reports added = live - tracked, removed = tracked - live and
\* modified = pending \cap live, three disjoint batches; it calls each callback
\* once if its batch is not empty and not at all otherwise; and it leaves no
\* pending id behind, so a pending id of a node that is gone is never reported.
C29_DiffPass ==
  [][PassStep =>
       /\ calls'.addedCalls =
            calls.addedCalls + CallsFor(watcher.stageShapes \ watcher.shapesRef)
       /\ \A n \in ShapeIds :
            calls'.timesAdded[n] = calls.timesAdded[n]
              + CallsFor({n} \cap (watcher.stageShapes \ watcher.shapesRef))
       /\ calls'.removedCalls =
            calls.removedCalls + CallsFor(watcher.shapesRef \ watcher.stageShapes)
       /\ Len(calls'.modifiedCalls) =
            Len(calls.modifiedCalls)
              + CallsFor(watcher.modifiedNodesRef \cap watcher.stageShapes)
       /\ watcher.modifiedNodesRef \cap watcher.stageShapes # {} =>
            calls'.modifiedCalls[Len(calls'.modifiedCalls)] =
              watcher.modifiedNodesRef \cap watcher.stageShapes
       /\ (watcher.stageShapes \ watcher.shapesRef) \cap watcher.modifiedNodesRef = {}
       /\ watcher'.modifiedNodesRef = {}]_vars

\* A signalled node left the stage before the frame of its tick ran: the frame
\* has run and no call of onNodesModified reported it.
C29_Witness ==
  /\ calls.frameRan
  /\ watcher.modifiedNodesRef = {}
  /\ \E n \in calls.signalled :
       n \notin watcher.stageShapes /\ ModifiedCallsWith(n) = {}

\* C30: right after every diff pass the tracked ids are the live ids, no id is
\* pending, and the nodes subscribed to the watcher's current handler are exactly
\* the tracked ones.
C30_AfterPassInSync ==
  [][TimeoutPass \/ (AnimationFrame /\ watcher.frames > 0) =>
       /\ watcher'.shapesRef = watcher'.stageShapes
       /\ watcher'.modifiedNodesRef = {}
       /\ watcher'.subscribed = watcher'.shapesRef]_vars

----------------------------------------------------------------------------
(* Properties of the scheduling of diff passes *)

\* C31: the property-change signals of one animation tick schedule a single diff
\* pass: at no time is more than one pass waiting for the next animation frame.
C31_OnePassPending == watcher.frames <= 1

----------------------------------------------------------------------------
(* Properties of the Bounds Tracker on a missing stage, layer or content *)

\* updateBounds runs, called or as a retry.
UpdateRuns == CallUpdateBounds \/ RetryTick

\* C32: a bounds recomputation that finds no stage, or finds the layer without
\* any drawable node, leaves the stored bounds exactly as they were.
C32_NoNodesKeepsBounds ==
  [][UpdateRuns /\ (~stage.attached \/ (stage.layer /\ nodes = {}))
       => qBounds' = qBounds /\ stage'.retries <= stage.retries]_vars

\* The measured nodes were all removed, the bounds were recomputed and kept.
C32_Witness ==
  /\ stage.outcome = "empty"
  /\ nodes = {}
  /\ qBounds # DefaultBounds

\* C33: a recomputation that finds the stage without its layer leaves the bounds
\* unchanged and schedules one retry; a retry that still finds no layer schedules
\* the next one, so the retrying goes on for as long as the layer is missing; and
\* once the layer is mounted on an attached stage every waiting retry runs and
\* scans the nodes.
C33_RetryUntilLayer ==
  /\ [][CallUpdateBounds /\ stage.attached /\ ~stage.layer
          => qBounds' = qBounds /\ stage'.retries = stage.retries + 1]_vars
  /\ [][RetryTick /\ stage.attached /\ ~stage.layer
          => qBounds' = qBounds /\ stage'.retries = stage.retries]_vars
  /\ (stage.attached /\ stage.layer /\ stage.retries > 0)
        ~> \/ stage.retries = 0 /\ stage.outcome \in {"empty", "scan"}
           \/ ~stage.layer
           \/ ~stage.attached

\* Two retries ran: the first found no layer, the last one scanned the nodes.
C33_Witness ==
  /\ stage.retried = 2
  /\ stage.retries = 0
  /\ stage.outcome = "scan"

----------------------------------------------------------------------------
(* Properties of the rasterization *)

\* C35: the stage's position and scale are those of the committed transform
\* whenever a step begins or ends, so capturePreview leaves them as they were and
\* no recomputation of the bounds reads the identity transform; and capturePreview
\* on a missing stage or with the minimap disabled changes neither the stage nor
\* the stored preview.
C35_CaptureRestoresTransform ==
  /\ [](stage.scale = Pt(scale, scale) /\ stage.position = position)
  /\ [][CapturePreview /\ (~stage.attached \/ ~stage.enabled)
          => stage' = [stage EXCEPT !.steps = @ + 1]]_vars

\* A snapshot of a zoomed stage has been stored.
C35_Witness == stage.preview > 0 /\ scale # One /\ position # Pt(Zero, Zero)

====
